---- MODULE Spec2Model ----
(***************************************************************************)
(* Model of the messaging backend (src/backend/index.js): the conversation *)
(* directory (getOrCreateConversation), the message store, the unread      *)
(* ledger, the presence registry (connectedUsers) and the live fan-out     *)
(* through Socket.IO rooms.  Every await on a database call is one atomic  *)
(* step of the request that issues it; the synchronous code that follows   *)
(* an await up to the next database call is folded into that next step,    *)
(* except the emits, which read the rooms and are a step of their own.     *)
(***************************************************************************)
EXTENDS Integers, Sequences, FiniteSets, Bags, TLC

\* ------------------------------------------------------------------ bounds
NumUsers == 3       \* registered users, ids 1..NumUsers
NumSockets == 3     \* socket handles; socket s carries the token of SocketOwner(s)
MaxReq == 2         \* requests in flight at once in Spec (each slot runs one)
SeqReqs == 1        \* requests run one after another in SpecSeq
LedgerReqs == 3     \* requests in SpecLedger
LiveReqs == 2       \* requests in SpecLive
MaxClock == 1       \* Date.now() values 0..MaxClock
AccessReqs == 2     \* requests in SpecAccess
PageSends == 2      \* messages sent before the walk in SpecPage
PageSize == 1       \* largest `limit` asked for in SpecPage
PairReqs == 3       \* requests run one after another in SpecPair
InboxReqs == 3      \* requests run one after another in SpecInbox
OnlineReqs == 2     \* requests in SpecOnline
FailReqs == 2       \* requests in SpecFail
LimitReqs == 2      \* requests in SpecLimit
TypeReqs == 2       \* requests run one after another in SpecTypes
CleanupReqs == 2    \* requests in SpecCleanup
OriginReqs == 2
ClientCalls == 2
RouteReqs == 1      \* requests in SpecRoute
TypingBound == 1    \* typing events a session receives before typing stops in SpecTyping

\* --------------------------------------------------------- program values
MaxTextLen == 2000  \* messageSchema.text.maxlength

Users == 1..NumUsers
Sockets == 1..NumSockets

UnknownId == 0      \* an id (or e-mail) that names no user
NoId == 0           \* null / undefined reference
NoDate == -1        \* seenAt: null

\* A text is a run of `core` characters (first and last not white space)
\* with `pad` white-space characters around it; NoText is an absent field.
NoText == [core |-> -1, pad |-> 0]
EmptyText == [core |-> 0, pad |-> 0]
Hello == [core |-> 5, pad |-> 0]
Blank == [core |-> 0, pad |-> 2]
PaddedHello == [core |-> 5, pad |-> 2]
LongText == [core |-> MaxTextLen + 1, pad |-> 0]
PaddedMaxText == [core |-> MaxTextLen, pad |-> 2]

Length(t) == t.core + t.pad
\* String.prototype.trim / mongoose `trim: true`
Trim(t) == [core |-> t.core, pad |-> 0]
\* JavaScript truthiness of the text field: undefined and '' are falsy
Truthy(t) == t # NoText /\ Length(t) > 0

\* An e-mail address as typed: the user it belongs to once lower-cased
\* (UnknownId when nobody registered it) and whether it has capitals.
Email(u, caps) == [user |-> u, caps |-> caps]
ToLowerCase(e) == [user |-> e.user, caps |-> FALSE]
\* userSchema.email is stored lower-cased and unique
StoredEmail(u) == Email(u, FALSE)

\* User.findById(id) / validateUserExists(id): the user or null
validateUserExists(id) == IF id \in Users THEN id ELSE NoId
\* User.findOne({ email: String(toEmail).toLowerCase() })
FindUserByEmail(e) ==
    LET hit == {u \in Users : StoredEmail(u) = ToLowerCase(e)}
    IN IF hit = {} THEN NoId ELSE CHOOSE u \in hit : TRUE

\* A receiver named by a request: toId, or toEmail when toId is absent.
ById(id) == [toId |-> id, toEmail |-> Email(UnknownId, FALSE), hasEmail |-> FALSE]
ByEmail(e) == [toId |-> NoId, toEmail |-> e, hasEmail |-> TRUE]
ResolvePeer(to) ==
    IF to.toId # NoId THEN validateUserExists(to.toId)
    ELSE IF to.hasEmail THEN FindUserByEmail(to.toEmail)
    ELSE NoId

\* -------------------------------------------------------------- the state
VARIABLES
    conversations,  \* Conversation collection: sequence, _id = index
    messages,       \* Message collection: sequence, _id = index
    connectedUsers, \* the connectedUsers Map: userId -> [socketId, connectedAt]
    sockets,        \* socket handle -> [state, userId]
    delivered,      \* socket handle -> bag of events the client received
    req,            \* request slot -> the request's locals and position
    now,            \* the clock read by new Date() / Date.now()
    issued,         \* history: conversation -> user -> $inc since the last reset
    client          \* one client's SocketService: its fields and its connect() calls

vars == <<conversations, messages, connectedUsers, sockets, delivered, req, now, issued, client>>

IdleReq ==
    [op |-> "none", pc |-> "idle", me |-> NoId, sock |-> 0, peer |-> NoId,
     text |-> NoText, mtype |-> "text", att |-> FALSE,
     cid |-> NoId, limit |-> 0, before |-> NoDate, size |-> 0, scan |-> <<>>,
     conv |-> NoId, msg |-> NoId, list |-> <<>>, threads |-> <<>>, result |-> "none"]

NewSocket == [state |-> "new", userId |-> NoId]

EmptyMap == [u \in {} |-> 0]

\* ------------------------------------------------- conversation helpers
\* the pair as passed, the sort forgotten
UnsortedPair(a, b) == <<a, b>>
\* participantIds.sort(): the two ids in ascending order
SortPair(a, b) == IF a <= b THEN <<a, b>> ELSE <<b, a>>

Range(s) == {s[i] : i \in DOMAIN s}

\* { participants: { $all: sortedParticipants, $size: sortedParticipants.length } }
MatchesParticipants(c, sorted) ==
    /\ Range(sorted) \subseteq Range(c.participants)
    /\ Len(c.participants) = Len(sorted)

\* Conversation.findOne(...): the first matching document, or NoId
FindOneConversation(sorted) ==
    LET hits == {i \in DOMAIN conversations : MatchesParticipants(conversations[i], sorted)}
    IN IF hits = {} THEN NoId ELSE CHOOSE i \in hits : \A j \in hits : i <= j

\* Conversation.create({ participants, lastMessage: {text:'', from:null, ...}, unreadCount: new Map() })
NewConversation(sorted) ==
    [participants |-> sorted,
     lastMessage |-> [text |-> [kind |-> "text", core |-> 0], from |-> NoId, timestamp |-> now],
     unreadCount |-> EmptyMap]

\* A deleted document leaves its slot behind, emptied, so that the _id of
\* every other document stays its index: no query matches an emptied slot.
DeletedConversation ==
    [participants |-> <<>>,
     lastMessage |-> [text |-> [kind |-> "text", core |-> 0], from |-> NoId, timestamp |-> NoDate],
     unreadCount |-> EmptyMap]
DeletedMessage ==
    [conversationId |-> NoId, from |-> NoId, to |-> NoId, text |-> [core |-> 0, pad |-> 0],
     status |-> "sent", seenAt |-> NoDate, messageType |-> "text",
     fileAttachment |-> FALSE, createdAt |-> NoDate]

\* Conversation.findById(cid) is null
NoConversation(cid) ==
    IF cid \in DOMAIN conversations THEN conversations[cid] = DeletedConversation ELSE TRUE
\* Conversation.findByIdAndUpdate(cid, ...): the collection after the update,
\* which changes nothing when no document has that _id
FindByIdAndUpdate(cid, updated) == IF NoConversation(cid) THEN conversations ELSE updated
\* the _ids of the stored conversations / messages
ConversationIds == {c \in DOMAIN conversations : conversations[c] # DeletedConversation}
MessageIds == {m \in DOMAIN messages : messages[m] # DeletedMessage}

\* A read of the counter without the `|| 0` default
UnreadOrMissing(c, u) == IF u \in DOMAIN c.unreadCount THEN c.unreadCount[u] ELSE -1
\* conv.unreadCount.get(userId) || 0
UnreadOf(c, u) == IF u \in DOMAIN c.unreadCount THEN c.unreadCount[u] ELSE 0

\* The value a buggy $set-to-1 would leave
SetUnreadToOne(c, u) == 1
\* $inc: { [`unreadCount.${userId}`]: 1 }, applied by the database in one step
IncUnreadValue(c, u) == UnreadOf(c, u) + 1

\* Socket.IO room named after a user id: the connected sockets that joined it
Room(u) == {s \in Sockets : sockets[s].state = "connected" /\ sockets[s].userId = u}

Emit(bagOf, targets, e) ==
    [s \in Sockets |-> IF s \in targets THEN bagOf[s] (+) SetToBag({e}) ELSE bagOf[s]]

Event(ev, m, c, peer, by) ==
    [ev |-> ev, messageId |-> m, conversationId |-> c, peerId |-> peer, readBy |-> by]


\* ------------------------------------------------------- request plumbing
\* A slot starts one request; slots are taken in order.
CanStart(r) == req[r].pc = "idle" /\ (IF r = 1 THEN TRUE ELSE req[r - 1].pc # "idle")

Started(r, op, me, s, peer) ==
    [IdleReq EXCEPT !.op = op, !.me = me, !.sock = s, !.peer = peer]

Finish(r, result) == req' = [req EXCEPT ![r].pc = "done", ![r].result = result]

\* getOrCreateConversation is awaited by four handlers; where each goes next
AfterConversation(op) ==
    CASE op \in {"http_send", "socket_send"} -> "append"
      [] op = "start_conv" -> "done"
      [] op = "get_messages" -> "list"

\* ---------------------------------------------------------- send: checks
\* The checks of POST /api/messages before getOrCreateConversation, in the
\* handler's order.  The sender was loaded by authWithUserValidation and no
\* handler deletes a user, so 'Sender not found' cannot be the answer.
SendValidationNoSelfCheck(me, to, text, att) ==
    IF ~Truthy(text) /\ ~att THEN "Text or file required"
    ELSE IF ResolvePeer(to) = NoId THEN "Peer not found or not registered"
    ELSE "ok"
SendValidation(me, to, text, att) ==
    IF ~Truthy(text) /\ ~att THEN "Text or file required"
    ELSE IF ResolvePeer(to) = NoId THEN "Peer not found or not registered"
    ELSE IF validateUserExists(me) = ResolvePeer(to) THEN "Cannot send message to yourself"
    ELSE "ok"

\* text ? String(text).trim() : ''
BodyText(text) == IF Truthy(text) THEN Trim(text) ELSE EmptyText

SendStart(r, op, me, s, to, text, mtype, att) ==
    LET verdict == SendValidation(me, to, text, att)
        \* the receiver is looked up only once the body check has passed
        peer == IF verdict = "Text or file required" THEN NoId ELSE ResolvePeer(to)
        base == [Started(r, op, me, s, peer) EXCEPT
                    !.text = BodyText(text), !.mtype = mtype, !.att = att]
    IN req' = [req EXCEPT ![r] =
                IF verdict = "ok" THEN [base EXCEPT !.pc = "find"]
                ELSE [base EXCEPT !.pc = "done", !.result = verdict]]

\* app.post('/api/messages', authWithUserValidation, ...)
HttpSendStart(r, me, to, text, mtype, att) ==
    /\ CanStart(r)
    /\ SendStart(r, "http_send", me, 0, to, text, mtype, att)
    /\ UNCHANGED <<conversations, messages, connectedUsers, sockets, delivered, now, issued, client>>

\* socket.on('message:send', ...) of a connected socket
SocketSendStart(r, s, to, text, mtype, att) ==
    /\ CanStart(r)
    /\ sockets[s].state = "connected"
    /\ SendStart(r, "socket_send", sockets[s].userId, s, to, text, mtype, att)
    /\ UNCHANGED <<conversations, messages, connectedUsers, sockets, delivered, now, issued, client>>

\* ------------------------------------------------ getOrCreateConversation
\* let conversation = await Conversation.findOne(...)
FindConversation(r) ==
    /\ req[r].pc = "find"
    /\ LET c == FindOneConversation(SortPair(req[r].me, req[r].peer))
       IN req' = [req EXCEPT ![r].conv = c,
                             ![r].pc = IF c = NoId THEN "create"
                                       ELSE AfterConversation(req[r].op),
                             ![r].result = IF c # NoId /\ req[r].op = "start_conv"
                                           THEN "ok" ELSE @]
    /\ UNCHANGED <<conversations, messages, connectedUsers, sockets, delivered, now, issued, client>>

\* conversation = await Conversation.create(...).  The collection carries no
\* unique index (participants_1 is dropped at start-up and the schema's
\* indexes are plain), so the insert always succeeds and the code-11000
\* branch is never taken.
CreateConversation(r) ==
    /\ req[r].pc = "create"
    /\ conversations' = Append(conversations, NewConversation(SortPair(req[r].me, req[r].peer)))
    /\ issued' = Append(issued, [u \in Users |-> 0])
    /\ req' = [req EXCEPT ![r].conv = Len(conversations) + 1,
                          ![r].pc = AfterConversation(req[r].op),
                          ![r].result = IF req[r].op = "start_conv" THEN "ok" ELSE @]
    /\ UNCHANGED <<messages, connectedUsers, sockets, delivered, now, client>>

\* --------------------------------------------------------- send: pipeline
\* A handler that emits as soon as the message is created
StepAfterEmitsEarly(pc) ==
    CASE pc = "append" -> "emit"
      [] pc = "last" -> "inc"
      [] pc = "inc" -> "emit"
\* the statements of the handler after getOrCreateConversation, in the
\* order they are written: Message.create, updateConversationLastMessage,
\* incrementUnreadCount, the emits
StepAfter(pc) ==
    CASE pc = "append" -> "last"
      [] pc = "last" -> "inc"
      [] pc = "inc" -> "emit"

\* messageSchema: text maxlength, messageType enum
MessageTypes == {"text", "image", "file"}
ValidMessage(text, mtype) == Length(Trim(text)) <= MaxTextLen /\ mtype \in MessageTypes

NewMessage(c, from, to, text, mtype, att) ==
    [conversationId |-> c, from |-> from, to |-> to, text |-> Trim(text),
     status |-> "sent", seenAt |-> NoDate, messageType |-> mtype,
     fileAttachment |-> att, createdAt |-> now]

\* const msg = await Message.create({...}); a validation error is thrown to
\* the handler's catch, which answers 'Server error'
AppendMessage(r) ==
    /\ req[r].pc = "append"
    /\ IF ValidMessage(req[r].text, req[r].mtype)
       THEN /\ messages' = Append(messages,
                    NewMessage(req[r].conv, req[r].me, req[r].peer, req[r].text,
                               req[r].mtype, req[r].att))
            /\ req' = [req EXCEPT ![r].msg = Len(messages) + 1, ![r].pc = StepAfter("append")]
       ELSE /\ Finish(r, "Server error")
            /\ UNCHANGED messages
    /\ UNCHANGED <<conversations, connectedUsers, sockets, delivered, now, issued, client>>

\* the preview stored as lastMessage.text
LastMessageText(m) ==
    CASE m.messageType = "image" -> [kind |-> "photo", core |-> 0]
      [] m.messageType = "multi_image" -> [kind |-> "photos", core |-> 0]
      [] m.messageType = "file" -> [kind |-> "file", core |-> 0]
      [] OTHER -> [kind |-> "text", core |-> m.text.core]

\* await updateConversationLastMessage(conversation._id, {...})
UpdateLastMessage(r) ==
    /\ req[r].pc = "last"
    /\ LET m == messages[req[r].msg]
       IN conversations' = FindByIdAndUpdate(req[r].conv,
              [conversations EXCEPT ![req[r].conv].lastMessage =
                  [text |-> LastMessageText(m), from |-> m.from, timestamp |-> m.createdAt]])
    /\ req' = [req EXCEPT ![r].pc = StepAfter("last")]
    /\ UNCHANGED <<messages, connectedUsers, sockets, delivered, now, issued, client>>

SetKey(f, k, v) == [x \in DOMAIN f \cup {k} |-> IF x = k THEN v ELSE f[x]]

\* await incrementUnreadCount(conversation._id, receiverId.toString())
IncrementUnread(r) ==
    /\ req[r].pc = "inc"
    /\ LET c == req[r].conv
           u == req[r].peer
       IN /\ conversations' = FindByIdAndUpdate(c,
                 [conversations EXCEPT ![c].unreadCount =
                     SetKey(@, u, IncUnreadValue(conversations[c], u))])
          /\ issued' = [issued EXCEPT ![c][u] = @ + 1]
    /\ req' = [req EXCEPT ![r].pc = StepAfter("inc")]
    /\ UNCHANGED <<messages, connectedUsers, sockets, delivered, now, client>>

\* An emission for the sender that names the receiver's room as well
SenderAndReceiverRooms(q) == Room(q.me) \cup Room(q.peer)
\* The sockets an event for the sender reaches: io.to(String(msg.from)) on
\* the HTTP path, socket.emit (the sending socket, if still connected) on
\* the socket path.
SenderTargets(q) ==
    IF q.op = "http_send" THEN Room(q.me)
    ELSE {s \in {q.sock} : sockets[s].state = "connected"}

\* An emission to the receiver that is dropped once the sender has no route
ReceiverTargetsWhileSenderOnline(q) == IF SenderTargets(q) = {} THEN {} ELSE Room(q.peer)
\* io.to(String(msg.to)) / io.to(String(receiverId)): the receiver's room
ReceiverTargets(q) == Room(q.peer)

\* An answer that depends on the receiver being reachable
SendResponseNeedsRoute(q) == IF Room(q.peer) = {} THEN "Receiver offline" ELSE "ok"
\* res.status(201).json({ message: payload, ... }) / ack?.({ ok: true, ... })
SendResponse(q) == "ok"

\* message:new to both parties, then thread:update to both parties
EmitNew(r) ==
    /\ req[r].pc = "emit"
    /\ LET q == req[r]
           d1 == Emit(delivered, SenderTargets(q), Event("message:new", q.msg, q.conv, NoId, NoId))
           d2 == Emit(d1, ReceiverTargets(q), Event("message:new", q.msg, q.conv, NoId, NoId))
           d3 == Emit(d2, SenderTargets(q), Event("thread:update", NoId, q.conv, q.peer, NoId))
       IN delivered' = Emit(d3, ReceiverTargets(q), Event("thread:update", NoId, q.conv, q.me, NoId))
    /\ Finish(r, SendResponse(req[r]))
    /\ UNCHANGED <<conversations, messages, connectedUsers, sockets, now, issued, client>>


\* A catch that runs the handler's try block again from the append
RetryFromAppend(q) == IF q.msg # NoId THEN "append" ELSE "done"
\* } catch (e) { return res.status(500).json({ error: 'Server error' }) } /
\* return ack?.({ error: 'Server error' }): the request ends
AfterCatch(q) == "done"

\* A step of the send pipeline throws (the database call rejects, the emit
\* throws before anything is sent): control passes to the handler's catch.
SendStepThrows(r) ==
    /\ req[r].op \in {"http_send", "socket_send"}
    /\ req[r].pc \in {"find", "create", "append", "last", "inc", "emit"}
    /\ req' = [req EXCEPT ![r].pc = AfterCatch(req[r]), ![r].result = "Server error"]
    /\ UNCHANGED <<conversations, messages, connectedUsers, sockets, delivered, now, issued, client>>

\* ------------------------------------------------------ start conversation
\* app.post('/api/conversations', ...): the checks before getOrCreateConversation
StartConversationValidation(me, peerId) ==
    IF peerId = NoId THEN "peerId is required"
    ELSE IF validateUserExists(peerId) = NoId THEN "Peer user not found or not registered"
    ELSE IF validateUserExists(me) = validateUserExists(peerId)
         THEN "Cannot create conversation with yourself"
    ELSE "ok"

StartConversationStart(r, me, peerId) ==
    /\ CanStart(r)
    /\ LET verdict == StartConversationValidation(me, peerId)
           base == Started(r, "start_conv", me, 0, validateUserExists(peerId))
       IN req' = [req EXCEPT ![r] =
                    IF verdict = "ok" THEN [base EXCEPT !.pc = "find"]
                    ELSE [base EXCEPT !.pc = "done", !.result = verdict]]
    /\ UNCHANGED <<conversations, messages, connectedUsers, sockets, delivered, now, issued, client>>

\* ------------------------------------------------------------ getMessages
DefaultLimit == 30
MaxLimit == 100

Min(a, b) == IF a <= b THEN a ELSE b

\* The `limit` query parameter as the client wrote it: absent, a decimal
\* numeral, or some other text
NoLimit == [kind |-> "absent", n |-> 0]
Numeral(n) == [kind |-> "numeral", n |-> n]
Words == [kind |-> "text", n |-> 0]

\* const { limit = 30 } = req.query; Number(limit): the default for an absent
\* parameter, the value of a numeral, NaN for other text.  NaN is only ever
\* tested by `||`, where it behaves as 0 does, so 0 stands for it.
NumberOfLimit(raw) ==
    CASE raw.kind = "absent" -> DefaultLimit
      [] raw.kind = "numeral" -> raw.n
      [] OTHER -> 0

\* Math.min(Number(limit) || 30, 100)
EffectiveLimit(limit) == Min(IF limit = 0 THEN DefaultLimit ELSE limit, MaxLimit)

\* .limit(n) of the query.  n > 0 is the page size.  A negative n is handed
\* to the database driver as it is: either the driver reads it as "at most
\* |n| documents, in one batch", or the query is rejected and the handler's
\* catch answers 'Server error'.
LimitOutcomes(n) ==
    IF n > 0 THEN {[ok |-> TRUE, size |-> n]}
    ELSE {[ok |-> TRUE, size |-> -n], [ok |-> FALSE, size |-> 0]}

\* Message.find(q): ids of the conversation's messages, created before the cursor if one is given
QueryMessages(c, before) ==
    {i \in DOMAIN messages :
        /\ messages[i].conversationId = c
        /\ (before # NoDate => messages[i].createdAt < before)}

\* .sort({ createdAt: -1 }): the orders with no message before a newer one;
\* the database may return messages of equal createdAt in either order
RECURSIVE NewestFirstOrders(_)
NewestFirstOrders(ids) ==
    IF ids = {} THEN {<<>>}
    ELSE UNION {{<<top>> \o rest : rest \in NewestFirstOrders(ids \ {top})} :
                top \in {i \in ids : \A j \in ids :
                                messages[i].createdAt >= messages[j].createdAt}}

Take(s, n) == SubSeq(s, 1, Min(n, Len(s)))
\* A page left in the order of the query, newest first
NotReversed(s) == s
Reverse(s) == [i \in 1..Len(s) |-> s[Len(s) + 1 - i]]

\* list.reverse() of the sorted, limited query
ListMessages(order, size) == Reverse(Take(order, size))

\* app.get('/api/messages', ...) by conversationId: findById, participant check
GetMessagesByIdStart(r, me, cid) ==
    /\ CanStart(r)
    /\ LET base == [Started(r, "get_messages", me, 0, NoId) EXCEPT !.cid = cid]
       IN req' = [req EXCEPT ![r] =
            IF NoConversation(cid)
            THEN [base EXCEPT !.pc = "done", !.result = "Conversation not found"]
            ELSE IF me \notin Range(conversations[cid].participants)
            THEN [base EXCEPT !.pc = "done", !.result = "Conversation not found"]
            ELSE [base EXCEPT !.pc = "list", !.conv = cid,
                    !.peer = LET others == {p \in Range(conversations[cid].participants) : p # me}
                             IN IF others = {} THEN NoId ELSE CHOOSE p \in others : TRUE]]
    /\ UNCHANGED <<conversations, messages, connectedUsers, sockets, delivered, now, issued, client>>

\* conversation.participants.find(p => p.toString() !== userId.toString())
OtherParticipant(c, me) ==
    LET others == {p \in Range(c.participants) : p # me}
    IN IF others = {} THEN NoId ELSE CHOOSE p \in others : TRUE

\* app.get('/api/conversations/:conversationId', auth, ...): findById, 404 when
\* absent, 403 when the caller is not a participant, else the details
GetConversation(r, me, cid) ==
    /\ CanStart(r)
    /\ LET base == [Started(r, "get_conv", me, 0, NoId) EXCEPT !.cid = cid, !.pc = "done"]
       IN req' = [req EXCEPT ![r] =
            IF NoConversation(cid)
            THEN [base EXCEPT !.result = "Conversation not found"]
            ELSE IF me \notin Range(conversations[cid].participants)
            THEN [base EXCEPT !.result = "Access denied"]
            ELSE [base EXCEPT !.result = "ok", !.conv = cid,
                              !.peer = OtherParticipant(conversations[cid], me)]]
    /\ UNCHANGED <<conversations, messages, connectedUsers, sockets, delivered, now, issued, client>>

\* app.get('/api/messages', ...) by peerId / peerEmail: resolve, then getOrCreateConversation
GetMessagesByPeerStart(r, me, to) ==
    /\ CanStart(r)
    /\ LET peer == ResolvePeer(to)
           base == Started(r, "get_messages", me, 0, peer)
       IN req' = [req EXCEPT ![r] =
            IF to.toId = NoId /\ ~to.hasEmail
            THEN [base EXCEPT !.pc = "done", !.result = "peerId, peerEmail, or conversationId required"]
            ELSE IF peer = NoId THEN [base EXCEPT !.pc = "done", !.result = "Peer not found"]
            ELSE [base EXCEPT !.pc = "find"]]
    /\ UNCHANGED <<conversations, messages, connectedUsers, sockets, delivered, now, issued, client>>

\* const list = await Message.find(q).sort(...).limit(...).lean()
ListStep(r, limit, before) ==
    /\ req[r].pc = "list"
    /\ \E order \in NewestFirstOrders(QueryMessages(req[r].conv, before)),
          page \in LimitOutcomes(EffectiveLimit(limit)) :
            req' = [req EXCEPT ![r] =
                IF page.ok
                THEN [@ EXCEPT !.list = ListMessages(order, page.size), !.size = page.size,
                               !.limit = limit, !.before = before, !.pc = "reset"]
                ELSE [@ EXCEPT !.limit = limit, !.before = before,
                               !.pc = "done", !.result = "Server error"]]
    /\ UNCHANGED <<conversations, messages, connectedUsers, sockets, delivered, now, issued, client>>

\* A reset that clears the counter of every participant
ResetEveryCounter(unread, u) == [x \in DOMAIN unread \cup {u} |-> 0]
\* $set: { [`unreadCount.${userId}`]: 0 }
ResetUnreadValue(unread, u) == SetKey(unread, u, 0)

\* await resetUnreadCount(conversation._id, meId.toString()); res.json(...)
ResetUnread(r) ==
    /\ req[r].pc = "reset"
    /\ conversations' = FindByIdAndUpdate(req[r].conv,
            [conversations EXCEPT ![req[r].conv].unreadCount = ResetUnreadValue(@, req[r].me)])
    /\ issued' = [issued EXCEPT ![req[r].conv][req[r].me] = 0]
    /\ Finish(r, "ok")
    /\ UNCHANGED <<messages, connectedUsers, sockets, delivered, now, client>>

\* ------------------------------------------------------------- getThreads
\* Conversation.find({ participants: userId })
ConversationsOf(me) ==
    {c \in DOMAIN conversations : me \in Range(conversations[c].participants)}

\* .sort({ 'lastMessage.timestamp': -1 }): the orders with no conversation
\* before one of a later lastMessage.timestamp; equal times in either order
RECURSIVE LatestFirstOrders(_)
LatestFirstOrders(ids) ==
    IF ids = {} THEN {<<>>}
    ELSE UNION {{<<top>> \o rest : rest \in LatestFirstOrders(ids \ {top})} :
                top \in {i \in ids : \A j \in ids :
                                conversations[i].lastMessage.timestamp
                                    >= conversations[j].lastMessage.timestamp}}

\* one element of conversations.map(conv => ({...}))
Thread(c, me) ==
    [conversationId |-> c,
     peerId |-> OtherParticipant(conversations[c], me),
     lastMessage |-> conversations[c].lastMessage.text,
     lastAt |-> conversations[c].lastMessage.timestamp,
     unreadCount |-> UnreadOf(conversations[c], me)]

\* app.get('/api/threads', ...): one query, then the map; otherParticipant._id
\* throws when a conversation has no participant other than the caller, and
\* the catch answers 'Server error'
GetThreads(r, me) ==
    /\ CanStart(r)
    /\ \E found \in LatestFirstOrders(ConversationsOf(me)) :
        LET base == [Started(r, "get_threads", me, 0, NoId) EXCEPT !.pc = "done"]
        IN req' = [req EXCEPT ![r] =
            IF \E i \in DOMAIN found : OtherParticipant(conversations[found[i]], me) = NoId
            THEN [base EXCEPT !.result = "Server error"]
            ELSE [base EXCEPT !.result = "ok",
                              !.threads = [i \in DOMAIN found |-> Thread(found[i], me)]]]
    /\ UNCHANGED <<conversations, messages, connectedUsers, sockets, delivered, now, issued, client>>

\* ------------------------------------------------------------ user lookup
\* app.get('/api/users/:userId', ...): the user and, if the two already have
\* a conversation, its id (Conversation.findOne, nothing is created)
GetUser(r, me, userId) ==
    /\ CanStart(r)
    /\ LET base == [Started(r, "get_user", me, 0, validateUserExists(userId)) EXCEPT !.pc = "done"]
       IN req' = [req EXCEPT ![r] =
            IF userId = me
            THEN [base EXCEPT !.result = "Cannot get own profile via this endpoint"]
            ELSE IF validateUserExists(userId) = NoId
            THEN [base EXCEPT !.result = "User not found"]
            ELSE [base EXCEPT !.result = "ok",
                              !.conv = FindOneConversation(UnsortedPair(me, userId))]]
    /\ UNCHANGED <<conversations, messages, connectedUsers, sockets, delivered, now, issued, client>>

\* ----------------------------------------------------------- message:read
\* The status markRead stores
BuggyReadStatus(old) == "delivered"
ReadStatus(old) == "read"

\* The room a read receipt goes to, by a slip of from/to
ReceiptRoomOfReceiver(m) == Room(m.to)
\* io.to(String(message.from))
ReceiptRoom(m) == Room(m.from)

\* A check that lets either party of the message mark it
IsSenderOrReceiver(m, userId) == userId \in {m.from, m.to}
\* String(message.to) === userId
IsReceiver(m, userId) == m.to = userId

\* socket.on('message:read', ...): const message = await Message.findById(messageId)
MarkReadStart(r, s, messageId) ==
    /\ CanStart(r)
    /\ sockets[s].state = "connected"
    /\ LET userId == sockets[s].userId
           base == [Started(r, "mark_read", userId, s, NoId) EXCEPT !.msg = messageId]
       IN req' = [req EXCEPT ![r] =
            IF messageId = NoId THEN [base EXCEPT !.pc = "done", !.result = "ignored"]
            ELSE IF messageId \in DOMAIN messages /\ IsReceiver(messages[messageId], userId)
            THEN [base EXCEPT !.pc = "save"]
            ELSE [base EXCEPT !.pc = "done", !.result = "ignored"]]
    /\ UNCHANGED <<conversations, messages, connectedUsers, sockets, delivered, now, issued, client>>

\* message.status = 'read'; message.seenAt = new Date(); await message.save()
MarkReadSave(r) ==
    /\ req[r].pc = "save"
    /\ messages' = [messages EXCEPT ![req[r].msg].status = ReadStatus(@),
                                    ![req[r].msg].seenAt = now]
    /\ req' = [req EXCEPT ![r].pc = "receipt"]
    /\ UNCHANGED <<conversations, connectedUsers, sockets, delivered, now, issued, client>>

\* io.to(String(message.from)).emit('message:read', { messageId, readBy: userId })
MarkReadEmit(r) ==
    /\ req[r].pc = "receipt"
    /\ delivered' = Emit(delivered, ReceiptRoom(messages[req[r].msg]),
                         Event("message:read", req[r].msg, NoId, NoId, req[r].me))
    /\ Finish(r, "ok")
    /\ UNCHANGED <<conversations, messages, connectedUsers, sockets, now, issued, client>>

\* --------------------------------------------------------------- presence
\* A registration that keeps the entry a user already has
RegisterIfAbsent(map, u, s) ==
    IF u \in DOMAIN map THEN map ELSE SetKey(map, u, [socketId |-> s, connectedAt |-> now])
\* connectedUsers.set(userId, { socketId: socket.id, userName, userEmail, connectedAt: new Date() })
RegisterSession(map, u, s) == SetKey(map, u, [socketId |-> s, connectedAt |-> now])

\* io.on('connection', ...): connectedUsers.set(userId, {...}); socket.join(userId)
Connect(s, u) ==
    /\ sockets[s].state = "new"
    /\ sockets' = [sockets EXCEPT ![s] = [state |-> "connected", userId |-> u]]
    /\ connectedUsers' = RegisterSession(connectedUsers, u, s)
    /\ UNCHANGED <<conversations, messages, delivered, req, now, issued, client>>

\* socket.on('disconnect', ...): connectedUsers.delete(userId); the socket leaves its rooms
Disconnect(s) ==
    /\ sockets[s].state = "connected"
    /\ sockets' = [sockets EXCEPT ![s].state = "closed"]
    /\ connectedUsers' = [u \in DOMAIN connectedUsers \ {sockets[s].userId} |-> connectedUsers[u]]
    /\ UNCHANGED <<conversations, messages, delivered, req, now, issued, client>>

\* app.get('/api/users/:userId/status', ...): isOnline = connectedUsers.has(userId)
IsOnline(u) == u \in DOMAIN connectedUsers

\* --------------------------------------------------------------- cleanup
\* a participant id whose user document is in the users collection
UserExists(id) == validateUserExists(id) # NoId

\* A filter that keeps no participant
NoValidParticipants(participants) == <<>>
\* validParticipants: the participants for which User.findById finds a user
ValidParticipants(participants) == SelectSeq(participants, UserExists)

\* app.post('/api/admin/cleanup', ...): const allConversations =
\* await Conversation.find({}).lean(): the documents as they are now
CleanupStart(r, me) ==
    /\ CanStart(r)
    /\ LET ids == ConversationIds
           snapshot == [c \in ids |-> [id |-> c, participants |-> conversations[c].participants]]
           RECURSIVE InOrder(_)
           InOrder(S) == IF S = {} THEN <<>>
                         ELSE LET c == CHOOSE x \in S : \A y \in S : x <= y
                              IN <<snapshot[c]>> \o InOrder(S \ {c})
       IN req' = [req EXCEPT ![r] =
              [Started(r, "cleanup", me, 0, NoId) EXCEPT !.scan = InOrder(ids), !.pc = "check"]]
    /\ UNCHANGED <<conversations, messages, connectedUsers, sockets, delivered, now, issued, client>>

\* one turn of `for (const conv of allConversations)` up to its first write:
\* the User.findById of every participant (no handler changes the users
\* collection, so the lookups are one step), then the comparison of lengths
CleanupCheck(r) ==
    /\ req[r].op = "cleanup" /\ req[r].pc = "check"
    /\ IF req[r].scan = <<>>
       THEN /\ req' = [req EXCEPT ![r].pc = "orphans"]
            /\ UNCHANGED conversations
       ELSE LET conv == Head(req[r].scan)
                valid == ValidParticipants(conv.participants)
            IN IF Len(valid) = Len(conv.participants)
               THEN /\ req' = [req EXCEPT ![r].scan = Tail(@)]
                    /\ UNCHANGED conversations
               ELSE IF Len(valid) < 2
               THEN /\ req' = [req EXCEPT ![r].pc = "delconv"]
                    /\ UNCHANGED conversations
               \* await Conversation.findByIdAndUpdate(conv._id, { participants: validParticipants })
               ELSE /\ conversations' =
                          IF NoConversation(conv.id) THEN conversations
                          ELSE [conversations EXCEPT ![conv.id].participants = valid]
                    /\ req' = [req EXCEPT ![r].scan = Tail(@)]
    /\ UNCHANGED <<messages, connectedUsers, sockets, delivered, now, issued, client>>

\* await Conversation.findByIdAndDelete(conv._id)
CleanupDeleteConversation(r) ==
    /\ req[r].op = "cleanup" /\ req[r].pc = "delconv"
    /\ conversations' = [conversations EXCEPT ![Head(req[r].scan).id] = DeletedConversation]
    /\ req' = [req EXCEPT ![r].pc = "delmsgs"]
    /\ UNCHANGED <<messages, connectedUsers, sockets, delivered, now, issued, client>>

\* await Message.deleteMany({ conversationId: conv._id }); cleanedConversations++
CleanupDeleteMessages(r) ==
    /\ req[r].op = "cleanup" /\ req[r].pc = "delmsgs"
    /\ messages' = [m \in DOMAIN messages |->
            IF messages[m].conversationId = Head(req[r].scan).id
            THEN DeletedMessage ELSE messages[m]]
    /\ req' = [req EXCEPT ![r].scan = Tail(@), ![r].pc = "check"]
    /\ UNCHANGED <<conversations, connectedUsers, sockets, delivered, now, issued, client>>

\* Message.find({ $or: [conversationId, from, to missing] }): the three fields
\* are required by messageSchema, so no stored message matches and
\* deleteMany is not called; res.json({ message: 'Database cleanup completed', ... })
CleanupOrphans(r) ==
    /\ req[r].op = "cleanup" /\ req[r].pc = "orphans"
    /\ Finish(r, "ok")
    /\ UNCHANGED <<conversations, messages, connectedUsers, sockets, delivered, now, issued, client>>

CleanupStep(r) ==
    \/ CleanupCheck(r)
    \/ CleanupDeleteConversation(r)
    \/ CleanupDeleteMessages(r)
    \/ CleanupOrphans(r)

\* ---------------------------------------------------------------- typing
TypingKinds == {"typing:start", "typing:stop"}

\* { fromId: userId }: the payload of both typing events (the id is carried
\* in the peer field of the event record)
TypingEvent(kind, fromId) == Event(kind, NoId, NoId, fromId, NoId)

\* socket.on('typing:start' | 'typing:stop', (data) => { const { toId } = data;
\*   if (toId) io.to(String(toId)).emit(kind, { fromId: userId }) })
Typing(s, toId, kind) ==
    /\ sockets[s].state = "connected"
    /\ delivered' = IF toId # NoId
                    THEN Emit(delivered, Room(toId), TypingEvent(kind, sockets[s].userId))
                    ELSE delivered
    /\ UNCHANGED <<conversations, messages, connectedUsers, sockets, req, now, issued, client>>

\* the wall clock advances between any two steps, or does not
Tick ==
    /\ now < MaxClock
    /\ now' = now + 1
    /\ UNCHANGED <<conversations, messages, connectedUsers, sockets, delivered, req, issued, client>>

\* ------------------------------------------------- client: SocketService
\* static const int _maxConnectionAttempts = 3
maxConnectionAttempts == 3
\* the attempts counted for one connect() call stop at one past the maximum
AttemptCap == maxConnectionAttempts + 1

\* a connect() call that has not been made
NoCall == [pc |-> "idle", made |-> 0, created |-> 0, overlapped |-> FALSE]
\* the service as constructed: _isConnected, _isConnecting, _connectionAttempts,
\* _socket (none), _reconnectTimer (none), and no connect() call made
NoClient ==
    [isConnected |-> FALSE, isConnecting |-> FALSE, connectionAttempts |-> 0,
     socket |-> "none", timer |-> FALSE,
     calls |-> [k \in 1..ClientCalls |-> NoCall]]

\* the connect() calls that are between their guard and their return
ActiveCalls == {k \in DOMAIN client.calls : client.calls[k].pc \in {"reach", "loop", "wait", "delay"}}

\* connect(): if (_isConnected || _isConnecting) return;
ConnectGuard == client.isConnected \/ client.isConnecting

\* connect(), up to its first await: the guard, _isConnecting = true,
\* _connectionAttempts = 0, await _isBackendReachable().  Called by the
\* application, by ensureConnection and by _attemptReconnection.
ConnectCall(k) ==
    /\ client.calls[k].pc = "idle"
    /\ (IF k = 1 THEN TRUE ELSE client.calls[k - 1].pc # "idle")
    /\ client' =
          IF ConnectGuard
          THEN [client EXCEPT !.calls[k].pc = "returned",
                              !.calls[k].overlapped = ActiveCalls # {}]
          ELSE [client EXCEPT !.isConnecting = TRUE, !.connectionAttempts = 0,
                              !.calls[k].pc = "reach",
                              !.calls[k].overlapped = ActiveCalls # {}]
    /\ UNCHANGED <<conversations, messages, connectedUsers, sockets, delivered, req, now, issued>>

\* _isBackendReachable() answers: true on status 200 and on any exception,
\* false on another status, and then connect() throws
BackendReachable(k) ==
    /\ client.calls[k].pc = "reach"
    /\ \E isReachable \in BOOLEAN :
          client' = IF isReachable
                    THEN [client EXCEPT !.calls[k].pc = "loop"]
                    ELSE [client EXCEPT !.isConnecting = FALSE, !.calls[k].pc = "threw"]
    /\ UNCHANGED <<conversations, messages, connectedUsers, sockets, delivered, req, now, issued>>

\* the head of the while loop and one attempt up to the await in _connect():
\* _connectionAttempts++, _socket?.dispose(), _socket = IO.io(...),
\* _setupEventListeners(), _socket.connect(); or the loop ends and
\* _isConnecting = false
Attempt(k) ==
    /\ client.calls[k].pc = "loop"
    /\ client.calls[k].made < AttemptCap
    /\ client' =
          IF client.connectionAttempts < maxConnectionAttempts /\ ~client.isConnected
          THEN [client EXCEPT !.connectionAttempts = @ + 1,
                              !.socket = "opening",
                              !.calls[k].made = @ + 1,
                              !.calls[k].created = @ + 1,
                              !.calls[k].pc = "wait"]
          ELSE [client EXCEPT !.isConnecting = FALSE, !.calls[k].pc = "returned"]
    /\ UNCHANGED <<conversations, messages, connectedUsers, sockets, delivered, req, now, issued>>

\* _connect() stops polling: connected (break, _isConnecting = false), or
\* not connected after 10 seconds, which throws into the catch of connect():
\* all attempts used (_isConnecting = false, throw) or await the retry delay
WaitEnds(k) ==
    /\ client.calls[k].pc = "wait"
    /\ client' =
          IF client.isConnected
          THEN [client EXCEPT !.isConnecting = FALSE, !.calls[k].pc = "returned"]
          ELSE IF client.connectionAttempts >= maxConnectionAttempts
          THEN [client EXCEPT !.isConnecting = FALSE, !.calls[k].pc = "threw"]
          ELSE [client EXCEPT !.calls[k].pc = "delay"]
    /\ UNCHANGED <<conversations, messages, connectedUsers, sockets, delivered, req, now, issued>>

\* await Future.delayed(_retryDelay) completes: back to the head of the loop
RetryDelayEnds(k) ==
    /\ client.calls[k].pc = "delay"
    /\ client' = [client EXCEPT !.calls[k].pc = "loop"]
    /\ UNCHANGED <<conversations, messages, connectedUsers, sockets, delivered, req, now, issued>>

\* _socket.onConnect
OnConnect ==
    /\ client.socket = "opening"
    /\ client' = [client EXCEPT !.socket = "open", !.isConnected = TRUE,
                                !.isConnecting = FALSE, !.connectionAttempts = 0]
    /\ UNCHANGED <<conversations, messages, connectedUsers, sockets, delivered, req, now, issued>>

\* _socket.onConnectError and _socket.onError: both clear the two flags
OnConnectError ==
    /\ client.socket = "opening"
    /\ client' = [client EXCEPT !.isConnected = FALSE, !.isConnecting = FALSE]
    /\ UNCHANGED <<conversations, messages, connectedUsers, sockets, delivered, req, now, issued>>

\* _socket.onDisconnect with a reason other than 'io client disconnect':
\* both flags cleared, then _scheduleReconnect(), which sets the timer
\* (_shouldAutoReconnect is true and _isConnecting has just been cleared);
\* the socket, built with enableReconnection(), starts reconnecting
OnDisconnect ==
    /\ client.socket = "open"
    /\ client' = [client EXCEPT !.socket = "opening", !.isConnected = FALSE,
                                !.isConnecting = FALSE, !.timer = TRUE]
    /\ UNCHANGED <<conversations, messages, connectedUsers, sockets, delivered, req, now, issued>>

\* the _reconnectTimer callback: if (!_isConnected && _shouldAutoReconnect)
\* it calls connect(token), here as call k
ReconnectTimerFires(k) ==
    /\ client.timer
    /\ client.calls[k].pc = "idle"
    /\ (IF k = 1 THEN TRUE ELSE client.calls[k - 1].pc # "idle")
    /\ client' =
          IF client.isConnected
          THEN [client EXCEPT !.timer = FALSE]
          ELSE IF ConnectGuard
          THEN [client EXCEPT !.timer = FALSE, !.calls[k].pc = "returned",
                              !.calls[k].overlapped = ActiveCalls # {}]
          ELSE [client EXCEPT !.timer = FALSE, !.isConnecting = TRUE, !.connectionAttempts = 0,
                              !.calls[k].pc = "reach",
                              !.calls[k].overlapped = ActiveCalls # {}]
    /\ UNCHANGED <<conversations, messages, connectedUsers, sockets, delivered, req, now, issued>>

\* ------------------------------------------------------- specifications
\* The user whose token socket s presents: user 1 is logged in on two
\* devices (sockets 1 and 2), every further socket belongs to the next user
SocketOwner(s) == IF s <= 2 THEN 1 ELSE s - 1

\* every socket connected, in the order of the handles (io.on('connection') of each)
AllConnected ==
    /\ sockets = [s \in Sockets |-> [state |-> "connected", userId |-> SocketOwner(s)]]
    /\ connectedUsers = [u \in {SocketOwner(s) : s \in Sockets} |->
            [socketId |-> CHOOSE s \in Sockets :
                            /\ SocketOwner(s) = u
                            /\ \A t \in Sockets : SocketOwner(t) = u => t <= s,
             connectedAt |-> 0]]

\* a request body: the text field and whether a fileAttachment is present
Body(text, att) == [text |-> text, att |-> att]
ValidBodies == {Body(Hello, FALSE)}
BodyInputs ==
    {Body(t, FALSE) : t \in {NoText, EmptyText, Hello, Blank, PaddedHello, LongText, PaddedMaxText}}
    \cup {Body(NoText, TRUE), Body(LongText, TRUE)}
PeerInputs == {ById(u) : u \in Users \cup {UnknownId}} \cup
              {ByEmail(Email(u, TRUE)) : u \in Users \cup {UnknownId}}

\* the steps of getOrCreateConversation and of the send pipeline
SendStep(r) ==
    \/ FindConversation(r)
    \/ CreateConversation(r)
    \/ AppendMessage(r)
    \/ UpdateLastMessage(r)
    \/ IncrementUnread(r)
    \/ EmitNew(r)

\* the steps of getMessages after the conversation is known
ReadStep(r) ==
    \/ ListStep(r, 0, NoDate)
    \/ ResetUnread(r)

\* the requests that reach getOrCreateConversation, with bodies from B
Arrive(R, B) ==
    \/ \E r \in R, me \in Users, to \in PeerInputs, b \in B :
            HttpSendStart(r, me, to, b.text, "text", b.att)
    \/ \E r \in R, s \in Sockets, to \in PeerInputs, b \in B :
            SocketSendStart(r, s, to, b.text, "text", b.att)
    \/ \E r \in R, me \in Users, p \in Users \cup {UnknownId} : StartConversationStart(r, me, p)
    \/ \E r \in R, me \in Users, to \in PeerInputs : GetMessagesByPeerStart(r, me, to)

EmptyDatabase ==
    /\ conversations = <<>>
    /\ messages = <<>>
    /\ issued = <<>>

\* Spec: an empty database, every client connected, MaxReq concurrent requests
\* of the four kinds that reach getOrCreateConversation.
Reqs == 1..MaxReq

Init ==
    /\ EmptyDatabase
    /\ AllConnected
    /\ delivered = [s \in Sockets |-> EmptyBag]
    /\ req = [r \in Reqs |-> IdleReq]
    /\ now = 0
    /\ client = NoClient

Next ==
    \/ Arrive(Reqs, ValidBodies)
    \/ \E r \in Reqs : SendStep(r) \/ ReadStep(r)
    \/ Tick

Spec == Init /\ [][Next]_vars

\* SpecSeq: the same server taking SeqReqs requests one after another, with
\* every kind of body, valid or not.  No timestamp is compared here, so the
\* clock stands still.
NoneRunning == \A r \in DOMAIN req : req[r].pc \in {"idle", "done"}

InitSeq ==
    /\ EmptyDatabase
    /\ AllConnected
    /\ delivered = [s \in Sockets |-> EmptyBag]
    /\ req = [r \in 1..SeqReqs |-> IdleReq]
    /\ now = 0
    /\ client = NoClient

NextSeq ==
    \/ NoneRunning /\ Arrive(1..SeqReqs, BodyInputs)
    \/ \E r \in 1..SeqReqs : SendStep(r) \/ ReadStep(r)

SpecSeq == InitSeq /\ [][NextSeq]_vars

\* SpecLedger: LedgerReqs concurrent requests, each a send from user 1 to
\* user 2 or a getMessages of user 2 (by peer or by conversation id) that
\* resets 2's counter; nobody connected.
NobodyConnected ==
    /\ sockets = [s \in Sockets |-> NewSocket]
    /\ connectedUsers = EmptyMap

InitLedger ==
    /\ EmptyDatabase
    /\ NobodyConnected
    /\ delivered = [s \in Sockets |-> EmptyBag]
    /\ req = [r \in 1..LedgerReqs |-> IdleReq]
    /\ now = 0
    /\ client = NoClient

NextLedger ==
    \/ \E r \in 1..LedgerReqs : HttpSendStart(r, 1, ById(2), Hello, "text", FALSE)
    \/ \E r \in 1..LedgerReqs : GetMessagesByPeerStart(r, 2, ById(1))
    \/ \E r \in 1..LedgerReqs, c \in 1..2 : GetMessagesByIdStart(r, 2, c)
    \/ \E r \in 1..LedgerReqs : SendStep(r) \/ ReadStep(r)

SpecLedger == InitLedger /\ [][NextLedger]_vars

\* SpecLive: a database that already holds one conversation between users 1
\* and 2 with one message 1 -> 2 (what a completed send of 'hello' leaves),
\* clients connecting and disconnecting, LiveReqs concurrent requests:
\* message:read, send, getMessages.
SeededDatabase ==
    /\ conversations =
          <<[participants |-> <<1, 2>>,
             lastMessage |-> [text |-> [kind |-> "text", core |-> Hello.core],
                              from |-> 1, timestamp |-> 0],
             unreadCount |-> (2 :> 1)]>>
    /\ messages = <<[conversationId |-> 1, from |-> 1, to |-> 2, text |-> Hello,
                     status |-> "sent", seenAt |-> NoDate, messageType |-> "text",
                     fileAttachment |-> FALSE, createdAt |-> 0]>>
    /\ issued = <<[u \in Users |-> IF u = 2 THEN 1 ELSE 0]>>

InitLive ==
    /\ SeededDatabase
    /\ NobodyConnected
    /\ delivered = [s \in Sockets |-> EmptyBag]
    /\ req = [r \in 1..LiveReqs |-> IdleReq]
    /\ now = 0
    /\ client = NoClient

NextLive ==
    \/ \E s \in Sockets : Connect(s, SocketOwner(s))
    \/ \E s \in Sockets : Disconnect(s)
    \/ \E r \in 1..LiveReqs, s \in Sockets, m \in 0..(LiveReqs + 1) : MarkReadStart(r, s, m)
    \/ \E r \in 1..LiveReqs : MarkReadSave(r) \/ MarkReadEmit(r)
    \/ \E r \in 1..LiveReqs, peer \in Users \ {1} :
            HttpSendStart(r, 1, ById(peer), Hello, "text", FALSE)
    \/ \E r \in 1..LiveReqs, me \in Users : GetMessagesByIdStart(r, me, 1)
    \/ \E r \in 1..LiveReqs : SendStep(r) \/ ReadStep(r)
    \/ Tick

SpecLive == InitLive /\ [][NextLive]_vars

\* SpecAccess: the seeded database, nobody connected, AccessReqs concurrent
\* reads by conversation id (messages, details) from every user, for the
\* stored conversation and for an id that names none.
InitAccess ==
    /\ SeededDatabase
    /\ NobodyConnected
    /\ delivered = [s \in Sockets |-> EmptyBag]
    /\ req = [r \in 1..AccessReqs |-> IdleReq]
    /\ now = 0
    /\ client = NoClient

NextAccess ==
    \/ \E r \in 1..AccessReqs, me \in Users, c \in 1..2 : GetMessagesByIdStart(r, me, c)
    \/ \E r \in 1..AccessReqs, me \in Users, c \in 1..2 : GetConversation(r, me, c)
    \/ \E r \in 1..AccessReqs : ReadStep(r)

SpecAccess == InitAccess /\ [][NextAccess]_vars

\* SpecPage: PageSends sends between users 1 and 2, one after another, then
\* user 2 pages backward through conversation 1: the first getMessages has no
\* cursor, each further one passes as `before` the createdAt of the oldest
\* message of the page before it, and the walk stops at an empty page.
PageReqs == 2 * PageSends + 1
PageSlots == (PageSends + 1)..PageReqs

\* the `before` parameter of the page asked by slot r
Cursor(r) ==
    IF r = PageSends + 1 \/ req[r - 1].list = <<>> THEN NoDate
    ELSE messages[req[r - 1].list[1]].createdAt

InitPage ==
    /\ EmptyDatabase
    /\ NobodyConnected
    /\ delivered = [s \in Sockets |-> EmptyBag]
    /\ req = [r \in 1..PageReqs |-> IdleReq]
    /\ now = 0
    /\ client = NoClient

NextPage ==
    \/ /\ NoneRunning
       /\ \E r \in 1..PageSends, me \in 1..2, peer \in 1..2 :
             me # peer /\ HttpSendStart(r, me, ById(peer), Hello, "text", FALSE)
    \/ /\ NoneRunning
       /\ \E r \in PageSlots :
             /\ (IF r = PageSends + 1 THEN TRUE ELSE req[r - 1].list # <<>>)
             /\ GetMessagesByIdStart(r, 2, 1)
    \/ \E r \in PageSlots, limit \in 0..PageSize : ListStep(r, limit, Cursor(r))
    \/ \E r \in 1..PageReqs : SendStep(r) \/ ResetUnread(r)
    \/ Tick

SpecPage == InitPage /\ [][NextPage]_vars

\* SpecPair: an empty database and PairReqs get-or-create calls one after
\* another, each from user 1 or user 2: start-conversation or getMessages by
\* peer id for any user (itself included), or getThreads.
InitPair ==
    /\ EmptyDatabase
    /\ NobodyConnected
    /\ delivered = [s \in Sockets |-> EmptyBag]
    /\ req = [r \in 1..PairReqs |-> IdleReq]
    /\ now = 0
    /\ client = NoClient

NextPair ==
    \/ /\ NoneRunning
       /\ \E r \in 1..PairReqs, me \in 1..2, p \in Users : StartConversationStart(r, me, p)
    \/ /\ NoneRunning
       /\ \E r \in 1..PairReqs, me \in 1..2, p \in Users : GetMessagesByPeerStart(r, me, ById(p))
    \/ /\ NoneRunning
       /\ \E r \in 1..PairReqs, me \in 1..2 : GetThreads(r, me)
    \/ \E r \in 1..PairReqs : FindConversation(r) \/ CreateConversation(r) \/ ReadStep(r)

SpecPair == InitPair /\ [][NextPair]_vars

\* SpecInbox: an empty database and InboxReqs requests one after another
\* between users 1 and 2: a send either way, a getMessages by peer (which
\* resets the caller's counter), or a getThreads.
InitInbox ==
    /\ EmptyDatabase
    /\ NobodyConnected
    /\ delivered = [s \in Sockets |-> EmptyBag]
    /\ req = [r \in 1..InboxReqs |-> IdleReq]
    /\ now = 0
    /\ client = NoClient

NextInbox ==
    \/ /\ NoneRunning
       /\ \E r \in 1..InboxReqs, me \in 1..2, peer \in 1..2 :
             me # peer /\ HttpSendStart(r, me, ById(peer), Hello, "text", FALSE)
    \/ /\ NoneRunning
       /\ \E r \in 1..InboxReqs, me \in 1..2, peer \in 1..2 :
             me # peer /\ GetMessagesByPeerStart(r, me, ById(peer))
    \/ /\ NoneRunning
       /\ \E r \in 1..InboxReqs, me \in 1..2 : GetThreads(r, me)
    \/ \E r \in 1..InboxReqs : SendStep(r) \/ ReadStep(r)

SpecInbox == InitInbox /\ [][NextInbox]_vars

\* SpecOnline: the seeded database with every socket connected and staying
\* so, and OnlineReqs concurrent requests: message:read from any socket for
\* any message id, a send from user 1, a getMessages of conversation 1 by
\* any user.
InitOnline ==
    /\ SeededDatabase
    /\ AllConnected
    /\ delivered = [s \in Sockets |-> EmptyBag]
    /\ req = [r \in 1..OnlineReqs |-> IdleReq]
    /\ now = 0
    /\ client = NoClient

NextOnline ==
    \/ \E r \in 1..OnlineReqs, s \in Sockets, m \in 0..(OnlineReqs + 1) : MarkReadStart(r, s, m)
    \/ \E r \in 1..OnlineReqs : MarkReadSave(r) \/ MarkReadEmit(r)
    \/ \E r \in 1..OnlineReqs, peer \in Users \ {1} :
            HttpSendStart(r, 1, ById(peer), Hello, "text", FALSE)
    \/ \E r \in 1..OnlineReqs, me \in Users : GetMessagesByIdStart(r, me, 1)
    \/ \E r \in 1..OnlineReqs : SendStep(r) \/ ReadStep(r)

SpecOnline == InitOnline /\ [][NextOnline]_vars

\* SpecRoute: an empty database, clients connecting and disconnecting
\* while RouteReqs sends run concurrently, over HTTP and over every
\* connected socket, between user 1 (two devices) and user 2 (one).
SessionUsers == 1..2

InitRoute ==
    /\ EmptyDatabase
    /\ NobodyConnected
    /\ delivered = [s \in Sockets |-> EmptyBag]
    /\ req = [r \in 1..RouteReqs |-> IdleReq]
    /\ now = 0
    /\ client = NoClient

NextRoute ==
    \/ \E s \in Sockets : Connect(s, SocketOwner(s))
    \/ \E s \in Sockets : Disconnect(s)
    \/ \E r \in 1..RouteReqs, me \in SessionUsers, peer \in SessionUsers :
            HttpSendStart(r, me, ById(peer), Hello, "text", FALSE)
    \/ \E r \in 1..RouteReqs, s \in Sockets, peer \in SessionUsers :
            SocketSendStart(r, s, ById(peer), Hello, "text", FALSE)
    \/ \E r \in 1..RouteReqs : SendStep(r)

SpecRoute == InitRoute /\ [][NextRoute]_vars

\* SpecTyping: clients connecting and disconnecting and sending typing
\* events to every user id and to none, until some session has received
\* TypingBound of them.
InitTyping ==
    /\ SeededDatabase
    /\ NobodyConnected
    /\ delivered = [s \in Sockets |-> EmptyBag]
    /\ req = [r \in 1..1 |-> IdleReq]
    /\ now = 0
    /\ client = NoClient

NextTyping ==
    \/ \E s \in Sockets : Connect(s, SocketOwner(s))
    \/ \E s \in Sockets : Disconnect(s)
    \/ \E s \in Sockets, toId \in Users \cup {NoId}, kind \in TypingKinds :
            /\ \A t \in Sockets : BagCardinality(delivered[t]) < TypingBound
            /\ Typing(s, toId, kind)

SpecTyping == InitTyping /\ [][NextTyping]_vars

\* SpecFail: an empty database, every client connected, FailReqs concurrent
\* sends, of user 1 to user 2 over HTTP and of user 2 to user 1 over its
\* socket, any step of which may throw.
InitFail ==
    /\ EmptyDatabase
    /\ AllConnected
    /\ delivered = [s \in Sockets |-> EmptyBag]
    /\ req = [r \in 1..FailReqs |-> IdleReq]
    /\ now = 0
    /\ client = NoClient

NextFail ==
    \/ \E r \in 1..FailReqs : HttpSendStart(r, 1, ById(2), Hello, "text", FALSE)
    \/ \E r \in 1..FailReqs, s \in {t \in Sockets : SocketOwner(t) = 2} :
            SocketSendStart(r, s, ById(1), Hello, "text", FALSE)
    \/ \E r \in 1..FailReqs : SendStep(r)
    \/ \E r \in 1..FailReqs : SendStepThrows(r)

SpecFail == InitFail /\ [][NextFail]_vars

\* SpecLimit: the seeded database, nobody connected, LimitReqs concurrent
\* requests: sends from user 1 and reads of the conversation of users 1 and
\* 2 by either of them with every kind of `limit` parameter.
LimitInputs ==
    {NoLimit, Words, Numeral(0), Numeral(1), Numeral(MaxLimit), Numeral(MaxLimit + 50),
     Numeral(-1), Numeral(-2 * MaxLimit)}

InitLimit ==
    /\ SeededDatabase
    /\ NobodyConnected
    /\ delivered = [s \in Sockets |-> EmptyBag]
    /\ req = [r \in 1..LimitReqs |-> IdleReq]
    /\ now = 0
    /\ client = NoClient

NextLimit ==
    \/ \E r \in 1..LimitReqs, peer \in Users \ {1} :
            HttpSendStart(r, 1, ById(peer), Hello, "text", FALSE)
    \/ \E r \in 1..LimitReqs, me \in 1..2 : GetMessagesByIdStart(r, me, 1)
    \/ \E r \in 1..LimitReqs : SendStep(r)
    \/ \E r \in 1..LimitReqs, raw \in LimitInputs : ListStep(r, NumberOfLimit(raw), NoDate)
    \/ \E r \in 1..LimitReqs : ResetUnread(r)

SpecLimit == InitLimit /\ [][NextLimit]_vars

\* SpecTypes: an empty database, every client connected, TypeReqs sends one
\* after another, of user 1 to user 2 over HTTP and of user 2 to user 1 over
\* its socket, of every message type the handlers know: a text, or an
\* attachment of type image, file or multi_image.
TypedBodies ==
    {[mtype |-> "text", text |-> Hello, att |-> FALSE]} \cup
    {[mtype |-> t, text |-> NoText, att |-> TRUE] : t \in {"image", "file", "multi_image"}}

InitTypes ==
    /\ EmptyDatabase
    /\ AllConnected
    /\ delivered = [s \in Sockets |-> EmptyBag]
    /\ req = [r \in 1..TypeReqs |-> IdleReq]
    /\ now = 0
    /\ client = NoClient

NextTypes ==
    \/ /\ NoneRunning
       /\ \E r \in 1..TypeReqs, b \in TypedBodies :
             HttpSendStart(r, 1, ById(2), b.text, b.mtype, b.att)
    \/ /\ NoneRunning
       /\ \E r \in 1..TypeReqs, s \in {t \in Sockets : SocketOwner(t) = 2}, b \in TypedBodies :
             SocketSendStart(r, s, ById(1), b.text, b.mtype, b.att)
    \/ \E r \in 1..TypeReqs : SendStep(r)

SpecTypes == InitTypes /\ [][NextTypes]_vars

\* SpecCleanup: a database that holds the conversation of users 1 and 2 and
\* a conversation of user 1 with a user whose document has since been
\* deleted from the users collection, each with one message; nobody
\* connected; CleanupReqs concurrent requests: cleanup, sends of user 1,
\* getMessages by conversation id.
GoneUser == NumUsers + 1

OrphanedDatabase ==
    /\ conversations =
          <<[participants |-> <<1, 2>>,
             lastMessage |-> [text |-> [kind |-> "text", core |-> Hello.core],
                              from |-> 1, timestamp |-> 0],
             unreadCount |-> (2 :> 1)],
            [participants |-> <<1, GoneUser>>,
             lastMessage |-> [text |-> [kind |-> "text", core |-> Hello.core],
                              from |-> GoneUser, timestamp |-> 0],
             unreadCount |-> (1 :> 1)]>>
    /\ messages = <<[conversationId |-> 1, from |-> 1, to |-> 2, text |-> Hello,
                     status |-> "sent", seenAt |-> NoDate, messageType |-> "text",
                     fileAttachment |-> FALSE, createdAt |-> 0],
                    [conversationId |-> 2, from |-> GoneUser, to |-> 1, text |-> Hello,
                     status |-> "sent", seenAt |-> NoDate, messageType |-> "text",
                     fileAttachment |-> FALSE, createdAt |-> 0]>>
    /\ issued = <<[u \in Users |-> IF u = 2 THEN 1 ELSE 0],
                  [u \in Users |-> IF u = 1 THEN 1 ELSE 0]>>

InitCleanup ==
    /\ OrphanedDatabase
    /\ NobodyConnected
    /\ delivered = [s \in Sockets |-> EmptyBag]
    /\ req = [r \in 1..CleanupReqs |-> IdleReq]
    /\ now = 0
    /\ client = NoClient

NextCleanup ==
    \/ \E r \in 1..CleanupReqs, me \in Users : CleanupStart(r, me)
    \/ \E r \in 1..CleanupReqs : CleanupStep(r)
    \/ \E r \in 1..CleanupReqs, peer \in Users \ {1} :
            HttpSendStart(r, 1, ById(peer), Hello, "text", FALSE)
    \/ \E r \in 1..CleanupReqs, cid \in 1..2 : GetMessagesByIdStart(r, 1, cid)
    \/ \E r \in 1..CleanupReqs : SendStep(r) \/ ReadStep(r)

SpecCleanup == InitCleanup /\ [][NextCleanup]_vars


\* SpecOrigin: an empty database, one client of user 1 and one of user 2
\* connecting and disconnecting, and
\* OriginReqs requests one after another from users 1 and 2, of every kind
\* the server answers: send, start-conversation, getMessages (by conversation
\* id, peer id, peer email), getThreads, conversation details, user lookup,
\* message:read, typing.
InitOrigin ==
    /\ EmptyDatabase
    /\ NobodyConnected
    /\ delivered = [s \in Sockets |-> EmptyBag]
    /\ req = [r \in 1..OriginReqs |-> IdleReq]
    /\ now = 0
    /\ client = NoClient

NextOrigin ==
    \/ \E s \in 2..NumSockets : Connect(s, SocketOwner(s))
    \/ \E s \in 2..NumSockets : Disconnect(s)
    \/ \E s \in 2..NumSockets, toId \in SessionUsers, kind \in TypingKinds :
            /\ \A t \in Sockets : BagCardinality(delivered[t]) < TypingBound
            /\ Typing(s, toId, kind)
    \/ /\ NoneRunning
       /\ \E r \in 1..OriginReqs, me \in SessionUsers :
            \/ \E p \in SessionUsers : HttpSendStart(r, me, ById(p), Hello, "text", FALSE)
            \/ \E p \in Users \cup {UnknownId} : StartConversationStart(r, me, p)
            \/ \E to \in PeerInputs : GetMessagesByPeerStart(r, me, to)
            \/ \E c \in 1..2 : GetMessagesByIdStart(r, me, c)
            \/ \E c \in 1..2 : GetConversation(r, me, c)
            \/ \E p \in Users \cup {UnknownId} : GetUser(r, me, p)
            \/ GetThreads(r, me)
    \/ /\ NoneRunning
       /\ \E r \in 1..OriginReqs, s \in 2..NumSockets, m \in 0..1 : MarkReadStart(r, s, m)
    \/ \E r \in 1..OriginReqs : SendStep(r) \/ ReadStep(r)
    \/ \E r \in 1..OriginReqs : MarkReadSave(r) \/ MarkReadEmit(r)

SpecOrigin == InitOrigin /\ [][NextOrigin]_vars


\* SpecClient: one client's SocketService making ClientCalls connect() calls
\* (from the application or from its reconnect timer) while its socket
\* connects, fails and disconnects; the server is left alone.
InitClient ==
    /\ EmptyDatabase
    /\ NobodyConnected
    /\ delivered = [s \in Sockets |-> EmptyBag]
    /\ req = [r \in 1..1 |-> IdleReq]
    /\ now = 0
    /\ client = NoClient

NextClient ==
    \/ \E k \in 1..ClientCalls : ConnectCall(k)
    \/ \E k \in 1..ClientCalls : BackendReachable(k)
    \/ \E k \in 1..ClientCalls : Attempt(k)
    \/ \E k \in 1..ClientCalls : WaitEnds(k)
    \/ \E k \in 1..ClientCalls : RetryDelayEnds(k)
    \/ \E k \in 1..ClientCalls : ReconnectTimerFires(k)
    \/ OnConnect
    \/ OnConnectError
    \/ OnDisconnect

SpecClient == InitClient /\ [][NextClient]_vars

\* ================================================================ claims
SendOps == {"http_send", "socket_send"}
Slots == DOMAIN req
IsPair(c, a, b) == Len(c.participants) = 2 /\ Range(c.participants) = {a, b}
OnlyStarted(R) == \A r \in Slots \ R : req[r].pc = "idle"
NothingDelivered == \A s \in Sockets : delivered[s] = EmptyBag

\* C1: the conversation store never holds two conversations whose participant
\* set is the same pair of distinct users, whatever the interleaving of the
\* get-or-create calls (HTTP send, socket send, start-conversation,
\* getMessages by peer).
C1_AtMostOneConversationPerPair ==
    \A i, j \in DOMAIN conversations :
        \A a, b \in Users :
            (a # b /\ IsPair(conversations[i], a, b) /\ IsPair(conversations[j], a, b))
                => i = j

\* C2: get-or-create calls for the same pair that have returned all returned
\* the same conversation id, and none of them failed.
Returned(q) == q.conv # NoId
C2_ConcurrentCallersGetSameConversation ==
    \A r1, r2 \in Slots :
        (/\ Returned(req[r1]) /\ Returned(req[r2])
         /\ req[r1].me # req[r1].peer
         /\ {req[r1].me, req[r1].peer} = {req[r2].me, req[r2].peer})
            => /\ req[r1].conv = req[r2].conv
               /\ req[r1].result # "Server error"

\* C3: when a session disconnects and the user's presence entry names another
\* session, the entry is left in place.
C3_DisconnectKeepsNewerSession ==
    [][\A s \in Sockets :
         LET u == sockets[s].userId
         IN (/\ sockets[s].state = "connected"
             /\ sockets'[s].state = "closed"
             /\ u \in DOMAIN connectedUsers
             /\ connectedUsers[u].socketId # s)
                => /\ u \in DOMAIN connectedUsers'
                   /\ connectedUsers'[u] = connectedUsers[u]]_vars

\* C4: no unread increment is lost: the counter of (conversation, user) equals
\* the number of increments issued for it since its last reset, in every
\* interleaving; while the user has not reset it, that is the number of sends
\* to the user in that conversation that have passed their increment step.
PastIncrement(q) == q.op \in SendOps /\ (q.pc = "emit" \/ (q.pc = "done" /\ q.result = "ok"))
SendsPastIncrement(c, u) ==
    Cardinality({r \in Slots : PastIncrement(req[r]) /\ req[r].conv = c /\ req[r].peer = u})
HasReset(c, u) ==
    \E r \in Slots : /\ req[r].op = "get_messages" /\ req[r].pc = "done"
                     /\ req[r].result = "ok" /\ req[r].conv = c /\ req[r].me = u
C4_NoLostIncrement ==
    \A c \in DOMAIN conversations : \A u \in Users :
        /\ UnreadOf(conversations[c], u) = issued[c][u]
        /\ ~HasReset(c, u) => UnreadOf(conversations[c], u) = SendsPastIncrement(c, u)

\* C4 witness: user 2 has reset its counter and two sends to it have since
\* incremented it; every request has completed.
C4_Witness ==
    /\ \A r \in Slots : req[r].pc = "done"
    /\ \E c \in DOMAIN conversations :
          /\ HasReset(c, 2)
          /\ issued[c][2] = 2
          /\ SendsPastIncrement(c, 2) = 2

\* C5: after two sends A -> B and B -> A, started with no conversation between
\* them and with nothing else running, there is exactly one conversation for
\* {A,B} with exactly two messages, each with its own request's sender and
\* receiver, and each user's unread count is 1.
CrossSends(r1, r2) ==
    /\ r1 # r2
    /\ OnlyStarted({r1, r2})
    /\ \A r \in {r1, r2} : req[r].op \in SendOps /\ req[r].pc = "done" /\ req[r].result = "ok"
    /\ req[r1].me = req[r2].peer
    /\ req[r2].me = req[r1].peer
C5_CrossSendsShareOneConversation ==
    \A r1, r2 \in Slots :
        CrossSends(r1, r2) =>
            /\ Len(conversations) = 1
            /\ Len(messages) = 2
            /\ \A r \in {r1, r2} :
                  /\ messages[req[r].msg].from = req[r].me
                  /\ messages[req[r].msg].to = req[r].peer
                  /\ messages[req[r].msg].conversationId = 1
            /\ UnreadOf(conversations[1], req[r1].me) = 1
            /\ UnreadOf(conversations[1], req[r1].peer) = 1

\* C6: when a send from A to a distinct user B is the only request that has
\* run and it has completed, there is exactly one conversation, its
\* participants are A and B in sorted order, it holds exactly one message
\* carrying the sent text (as stored: trimmed), sender A, receiver B, status
\* 'sent'; B's unread count is 1 and A's is 0.
LoneSend(r) ==
    /\ OnlyStarted({r})
    /\ req[r].op \in SendOps /\ req[r].pc = "done" /\ req[r].result = "ok"
SelfSendError == "Cannot send message to yourself"
C7_SelfSendRejected ==
    [][\A r \in Slots :
         /\ (/\ req[r].pc = "idle"
             /\ req'[r].op \in SendOps
             /\ req'[r].peer = req'[r].me)
                => /\ req'[r].pc = "done"
                   /\ req'[r].result = SelfSendError
                   /\ UNCHANGED <<conversations, messages, delivered, issued>>
         /\ req'[r].result = SelfSendError
                => req'[r].pc = "done" /\ req'[r].conv = NoId /\ req'[r].msg = NoId]_vars

\* C7 witness: a self-send over the socket, addressed by e-mail, was rejected
C7_Witness ==
    \E r \in Slots : /\ req[r].op = "socket_send" /\ req[r].result = SelfSendError
                     /\ req[r].peer = req[r].me /\ req[r].me = 2

\* C8: a send rejected by validation (empty body without attachment, unknown
\* receiver, receiver equal to sender, text over 2000 characters) leaves the
\* conversation store, the message store and the unread counters as they were
\* and emits no event; stated for a request that is the only one to have run,
\* on a database that was empty before it.
ValidationErrors ==
    {"Text or file required", "Peer not found or not registered", SelfSendError, "Server error"}
C8_RejectedSendLeavesNoTrace ==
    \A r \in Slots :
        (/\ OnlyStarted({r})
         /\ req[r].op \in SendOps /\ req[r].pc = "done"
         /\ req[r].result \in ValidationErrors)
            => /\ conversations = <<>>
               /\ messages = <<>>
               /\ NothingDelivered

\* C9: no step moves a message's status backward in sent < delivered < read
\* or removes a message, and once the receiver's markRead has saved (on a
\* message that was 'sent' or already 'read') the message is 'read' and the
\* request ends 'ok'.
StatusRank(st) == CASE st = "sent" -> 0 [] st = "delivered" -> 1 [] st = "read" -> 2
MarkReadSaved(q) == q.op = "mark_read" /\ (q.pc = "receipt" \/ (q.pc = "done" /\ q.result = "ok"))
C9_StatusMonotone ==
    [][/\ \A m \in DOMAIN messages :
            /\ m \in DOMAIN messages'
            /\ StatusRank(messages'[m].status) >= StatusRank(messages[m].status)
       /\ \A r \in Slots :
            MarkReadSaved(req'[r]) => messages'[req'[r].msg].status = "read"
       /\ \A r \in Slots :
            (req[r].pc = "save" /\ req'[r].pc # "save") => req'[r].pc = "receipt"]_vars

\* C9 witness: two markRead calls on the same message have both completed
C9_Witness ==
    \E r1, r2 \in Slots :
        /\ r1 # r2
        /\ req[r1].op = "mark_read" /\ req[r1].pc = "done" /\ req[r1].result = "ok"
        /\ req[r2].op = "mark_read" /\ req[r2].pc = "done" /\ req[r2].result = "ok"
        /\ req[r1].msg = req[r2].msg

\* C10: when the read receipt of a message is emitted the message is already
\* stored 'read' with a seen timestamp; the event goes to exactly the sockets
\* then connected for the message's sender and to no other socket; every
\* message:read event a socket holds is for a message its user sent; with no
\* sender socket connected nothing is delivered and the message stays 'read'.
ReadEvent(m, by) == Event("message:read", m, NoId, NoId, by)
C10_ReadReceiptToSenderOnly ==
    [][/\ \A r \in Slots :
            (req[r].pc = "receipt" /\ req'[r].pc = "done") =>
                LET m == req[r].msg
                IN /\ messages[m].status = "read"
                   /\ messages[m].seenAt # NoDate
                   /\ messages'[m] = messages[m]
                   /\ req[r].me = messages[m].to
                   /\ \A s \in Sockets :
                        delivered'[s] =
                            IF sockets[s].state = "connected" /\ sockets[s].userId = messages[m].from
                            THEN delivered[s] (+) SetToBag({ReadEvent(m, req[r].me)})
                            ELSE delivered[s]
       /\ \A s \in Sockets : \A e \in BagToSet(delivered'[s]) :
            e.ev = "message:read" =>
                /\ sockets'[s].userId = messages'[e.messageId].from
                /\ messages'[e.messageId].status = "read"
                /\ messages'[e.messageId].seenAt # NoDate]_vars

\* C10 witness: two receipts were emitted for message 1; a socket of the sender
\* got exactly one of them and another socket of the sender got none
C10_Witness ==
    /\ \A r \in Slots : req[r].op = "mark_read" /\ req[r].pc = "done" /\ req[r].result = "ok"
    /\ \E s, t \in Sockets :
          /\ s # t
          /\ sockets[s].userId = 1 /\ sockets[t].userId = 1
          /\ CopiesIn(ReadEvent(1, 2), delivered[s]) = 1
          /\ CopiesIn(ReadEvent(1, 2), delivered[t]) = 0

\* C11: a message:read for an existing message from a user who is not its
\* receiver (its sender, or a third user) ends at once without reply; the step
\* changes no message (status and seenAt stay), no conversation and delivers
\* no event, and the request never does anything afterwards.
Ignored(q) == q.op = "mark_read" /\ q.pc = "done" /\ q.result = "ignored"
C11_NonReceiverMarkReadIsNoOp ==
    [][\A r \in Slots :
         /\ (/\ req[r].pc = "idle"
             /\ req'[r].op = "mark_read"
             /\ req'[r].msg \in DOMAIN messages
             /\ messages[req'[r].msg].to # req'[r].me)
                => /\ Ignored(req'[r])
                   /\ UNCHANGED <<messages, conversations, delivered, issued>>
         /\ Ignored(req[r]) => req'[r] = req[r]]_vars

\* C11 witness: a user who neither sent nor receives the message marked it
\* read and was ignored; the message is still 'sent' and unseen
C11_Witness ==
    \E r \in Slots :
        /\ Ignored(req[r])
        /\ req[r].msg \in DOMAIN messages
        /\ req[r].me \notin {messages[req[r].msg].from, messages[req[r].msg].to}
        /\ messages[req[r].msg].status = "sent"
        /\ messages[req[r].msg].seenAt = NoDate

\* C12: a message:read that names a message id absent from the store ends
\* with a not-found error reported to the caller, and the step changes no
\* message, conversation, counter or delivered event.
MessageNotFound == "Message not found"
C12_MarkReadMissingIsNotFound ==
    [][\A r \in Slots :
         (/\ req[r].pc = "idle"
          /\ req'[r].op = "mark_read"
          /\ req'[r].msg # NoId
          /\ req'[r].msg \notin DOMAIN messages)
            => /\ req'[r].pc = "done"
               /\ req'[r].result = MessageNotFound
               /\ UNCHANGED <<messages, conversations, delivered, issued>>]_vars

\* C13: the steps of a getMessages that succeeds change nothing but the
\* requesting user's unread counter of that conversation, which becomes 0:
\* the query step writes nothing; the reset step leaves every message (status
\* and seenAt included), every other counter of the conversation, every
\* counter of every other conversation and all else in the conversations as
\* they were.
C13_GetMessagesResetsOnlyOwnCounter ==
    [][\A r \in Slots :
         /\ (req[r].op = "get_messages" /\ req[r].pc = "list" /\ req'[r].pc # "list")
                => /\ req'[r].pc = "reset"
                   /\ UNCHANGED <<conversations, messages, delivered, issued>>
         /\ (req[r].pc = "reset" /\ req'[r].pc # "reset")
                => LET c == req[r].conv
                       u == req[r].me
                   IN /\ req'[r].pc = "done" /\ req'[r].result = "ok"
                      /\ messages' = messages
                      /\ delivered' = delivered
                      /\ DOMAIN conversations' = DOMAIN conversations
                      /\ u \in DOMAIN conversations'[c].unreadCount
                      /\ conversations'[c].unreadCount[u] = 0
                      /\ \A d \in DOMAIN conversations :
                            /\ conversations'[d].participants = conversations[d].participants
                            /\ conversations'[d].lastMessage = conversations[d].lastMessage
                            /\ \A v \in Users :
                                  (d # c \/ v # u) =>
                                      UnreadOf(conversations'[d], v) = UnreadOf(conversations[d], v)]_vars

\* C13 witness: user 2 fetched conversation 1 and its counter is 0; the
\* 'hello' message was returned and is still 'sent' and unseen, and user 3
\* still has an unread message in another conversation
C13_Witness ==
    \E r \in Slots :
        /\ req[r].op = "get_messages" /\ req[r].pc = "done" /\ req[r].result = "ok"
        /\ req[r].me = 2 /\ req[r].conv = 1
        /\ 1 \in Range(req[r].list)
        /\ messages[1].status = "sent" /\ messages[1].seenAt = NoDate
        /\ conversations[1].unreadCount[2] = 0
        /\ \E d \in DOMAIN conversations : d # 1 /\ UnreadOf(conversations[d], 3) = 1

\* C14: a read by conversation id (the messages, or the details) from a user
\* who is not a participant is answered 'Conversation not found' whether the
\* id names a stored conversation or none, and the step resets no counter.
ReadsById == {"get_messages", "get_conv"}
Outsider(q) ==
    /\ q.op \in ReadsById
    /\ q.cid # NoId
    /\ q.cid \in DOMAIN conversations => q.me \notin Range(conversations[q.cid].participants)
C14_OutsiderCannotTellExistence ==
    [][\A r \in Slots :
         (req[r].pc = "idle" /\ Outsider(req'[r]))
            => /\ req'[r].pc = "done"
               /\ req'[r].result = "Conversation not found"
               /\ UNCHANGED <<conversations, messages, issued>>]_vars

\* C15: no page of getMessages holds a message created at or after the page's
\* `before` cursor; and once a backward walk (first page without cursor, each
\* next page with the createdAt of the oldest message of the page before)
\* has reached an empty page, every message of the conversation is in exactly
\* one place of exactly one page.
PagesOf(c) ==
    {r \in Slots : req[r].op = "get_messages" /\ req[r].conv = c /\ req[r].pc = "done"}
IsWalk(c) ==
    \A r \in PagesOf(c) :
        IF r - 1 \in PagesOf(c)
        THEN /\ req[r - 1].list # <<>>
             /\ req[r].before = messages[req[r - 1].list[1]].createdAt
        ELSE req[r].before = NoDate
WalkEnded(c) == \E r \in PagesOf(c) : req[r].list = <<>>
PlacesOf(c, m) == {<<r, i>> \in PagesOf(c) \X DOMAIN messages : i \in DOMAIN req[r].list /\ req[r].list[i] = m}
C15_BackwardWalkIsExact ==
    /\ \A r \in Slots :
          (req[r].op = "get_messages" /\ req[r].before # NoDate) =>
              \A i \in DOMAIN req[r].list : messages[req[r].list[i]].createdAt < req[r].before
    /\ \A c \in DOMAIN conversations :
          (NoneRunning /\ IsWalk(c) /\ WalkEnded(c)) =>
              \A m \in DOMAIN messages :
                  messages[m].conversationId = c => Cardinality(PlacesOf(c, m)) = 1

\* C16: within one conversation the creation timestamps strictly increase in
\* append order: of two messages of a conversation, the one appended first
\* has the strictly smaller createdAt (so no two share a timestamp).
C16_TimestampsStrictlyIncrease ==
    \A i, j \in DOMAIN messages :
        (i < j /\ messages[i].conversationId = messages[j].conversationId)
            => messages[i].createdAt < messages[j].createdAt

\* C17: a request that reaches get-or-create naming the requesting user as
\* the peer, or naming nobody registered, is refused and never holds a
\* conversation, whichever handler it came through (send, start-conversation,
\* getMessages by peer); and no stored conversation has the same user as both
\* participants.
GetOrCreateOps == SendOps \cup {"start_conv", "get_messages"}
ByPeer(q) == q.op \in GetOrCreateOps /\ q.cid = NoId
C17_InvalidParticipantsRefused ==
    /\ \A r \in Slots :
          (ByPeer(req[r]) /\ req[r].peer \in {req[r].me, NoId})
              => /\ req[r].pc = "done"
                 /\ req[r].result # "ok"
                 /\ req[r].conv = NoId
    /\ \A c \in DOMAIN conversations :
          /\ Len(conversations[c].participants) = 2
          /\ conversations[c].participants[1] # conversations[c].participants[2]

\* C18: of get-or-create calls made one after another, any two for the same
\* two distinct users, in either argument order, returned the same
\* conversation; the conversation returned for distinct users holds exactly
\* those two, smaller id first; and no call added a conversation for
\* participants that already had one.
SamePair(q1, q2) ==
    /\ q1.me # q1.peer
    /\ \/ (q1.me = q2.me /\ q1.peer = q2.peer)
       \/ (q1.me = q2.peer /\ q1.peer = q2.me)
C18_OrderIndependent ==
    /\ \A r1, r2 \in Slots :
          (/\ ByPeer(req[r1]) /\ Returned(req[r1])
           /\ ByPeer(req[r2]) /\ Returned(req[r2])
           /\ SamePair(req[r1], req[r2]))
              => req[r1].conv = req[r2].conv
    /\ \A r \in Slots :
          (ByPeer(req[r]) /\ Returned(req[r]) /\ req[r].me # req[r].peer)
              => LET p == conversations[req[r].conv].participants
                 IN /\ Len(p) = 2
                    /\ {p[1], p[2]} = {req[r].me, req[r].peer}
                    /\ p[1] < p[2]
    /\ \A i, j \in DOMAIN conversations :
          i # j => conversations[i].participants # conversations[j].participants

\* C18 witness: with a conversation of other users already stored, A asked
\* for (A,B) through one handler and then B asked for (B,A) through the
\* other; both hold conversation 2 and the store holds two conversations
C18_Witness ==
    \E r1, r2 \in Slots :
        /\ r1 < r2
        /\ req[r1].pc = "done" /\ req[r2].pc = "done"
        /\ req[r1].op # req[r2].op
        /\ req[r1].me > req[r1].peer
        /\ req[r2].me = req[r1].peer /\ req[r2].peer = req[r1].me
        /\ req[r1].conv = 2 /\ req[r2].conv = 2
        /\ Len(conversations) = 2

\* C19: every stored unread counter is an integer >= 0 in every state; every
\* unread count getThreads reports is an integer >= 0, equal to the stored
\* counter of the caller, and 0 when the conversation stores no counter for
\* the caller.
CountersNonNegative ==
    \A c \in DOMAIN conversations :
        \A u \in DOMAIN conversations[c].unreadCount : conversations[c].unreadCount[u] \in Nat
C19_UnreadNonNegative ==
    /\ []CountersNonNegative
    /\ [][\A r \in Slots :
            (req[r].pc = "idle" /\ req'[r].op = "get_threads") =>
                LET me == req'[r].me
                IN /\ req'[r].result = "ok"
                   /\ {req'[r].threads[i].conversationId : i \in DOMAIN req'[r].threads}
                          = ConversationsOf(me)
                   /\ \A i \in DOMAIN req'[r].threads :
                         LET t == req'[r].threads[i]
                             stored == conversations[t.conversationId].unreadCount
                         IN /\ t.unreadCount \in Nat
                            /\ me \in DOMAIN stored => t.unreadCount = stored[me]
                            /\ me \notin DOMAIN stored => t.unreadCount = 0]_vars

\* C19 witness: getThreads told user 1, for whom the conversation stores no
\* counter, 0 unread, and told user 2 a positive count
C19_Witness ==
    \E r1, r2 \in Slots :
        /\ req[r1].op = "get_threads" /\ req[r1].me = 1 /\ Len(req[r1].threads) >= 1
        /\ req[r1].threads[1].unreadCount = 0
        /\ 1 \notin DOMAIN conversations[req[r1].threads[1].conversationId].unreadCount
        /\ req[r2].op = "get_threads" /\ req[r2].me = 2 /\ Len(req[r2].threads) >= 1
        /\ req[r2].threads[1].unreadCount > 0

\* C20: while the receiver has no connected socket, a send that passed its
\* checks can always take its next step; its append stores the message, its
\* increment adds one to the receiver's counter, and its emit step ends the
\* request 'ok' with the message in the store and nothing delivered to the
\* receiver; and the query of a getMessages on a conversation returns every
\* message then stored for it, so the receiver's later getMessages holds the
\* message.
NoLiveSession(u) == Room(u) = {}
InPipeline(q) == q.op \in SendOps /\ q.pc \notin {"idle", "done"}
SendNeverBlocks ==
    \A r \in Slots :
        (InPipeline(req[r]) /\ NoLiveSession(req[r].peer)) => ENABLED SendStep(r)
C20_OfflineReceiverSendSucceeds ==
    /\ []SendNeverBlocks
    /\ [][/\ \A r \in Slots :
              (InPipeline(req[r]) /\ NoLiveSession(req[r].peer) /\ req'[r] # req[r]) =>
                  LET q == req[r]
                  IN /\ req'[r].result # "Server error"
                     /\ q.pc = "append" =>
                            /\ Len(messages') = Len(messages) + 1
                            /\ req'[r].msg = Len(messages')
                            /\ messages'[req'[r].msg].to = q.peer
                            /\ messages'[req'[r].msg].from = q.me
                            /\ messages'[req'[r].msg].conversationId = q.conv
                     /\ q.pc = "inc" =>
                            UnreadOf(conversations'[q.conv], q.peer)
                                = UnreadOf(conversations[q.conv], q.peer) + 1
                     /\ q.pc = "emit" =>
                            /\ req'[r].pc = "done" /\ req'[r].result = "ok"
                            /\ q.msg \in DOMAIN messages
                            /\ messages' = messages
                            /\ \A s \in Sockets :
                                  sockets[s].userId = q.peer => delivered'[s] = delivered[s]
         /\ \A r \in Slots :
              (req[r].op = "get_messages" /\ req[r].pc = "list" /\ req'[r].pc = "reset") =>
                  \A m \in DOMAIN messages :
                      messages[m].conversationId = req[r].conv => m \in Range(req'[r].list)]_vars

\* C20 witness: user 2 never connected; a send to it ended 'ok', its message
\* is stored, and a completed getMessages of user 2 returned the message
C20_Witness ==
    \E r1, r2 \in Slots :
        /\ \A s \in Sockets : SocketOwner(s) = 2 => sockets[s].state = "new"
        /\ req[r1].op \in SendOps /\ req[r1].pc = "done" /\ req[r1].result = "ok"
        /\ req[r1].peer = 2
        /\ messages[req[r1].msg].to = 2
        /\ req[r2].op = "get_messages" /\ req[r2].me = 2 /\ req[r2].pc = "done"
        /\ req[r2].result = "ok"
        /\ req[r1].msg \in Range(req[r2].list)

\* the message:new events for message m that socket s has received
NewEventsOf(s, m) ==
    {e \in BagToSet(delivered[s]) : e.ev = "message:new" /\ e.messageId = m}

\* C21: a session receives message:new for one persisted message at most
\* once, whichever path the send took and however many sessions the sender
\* and the receiver have.
C21_MessageNewAtMostOnce ==
    \A s \in Sockets, m \in DOMAIN messages :
        /\ Cardinality(NewEventsOf(s, m)) <= 1
        /\ \A e \in NewEventsOf(s, m) : CopiesIn(e, delivered[s]) = 1

\* an HTTP send of user 1, both of whose sessions and the receiver's session
\* hold the one copy
C21_Witness ==
    \E r \in DOMAIN req :
        /\ req[r].op = "http_send" /\ req[r].me = 1 /\ req[r].result = "ok"
        /\ \A s \in 1..3 : Cardinality(NewEventsOf(s, req[r].msg)) = 1

\* the send requests that have appended their message
Appended == {r \in DOMAIN req : req[r].msg # NoId}

\* C22: one send appends at most one message whatever step throws: the
\* append is never run again, nothing appended is removed, and a request
\* whose step throws after the append answers that the send failed while
\* its one message stays in the store.
C22_OneAppendPerSend ==
    /\ [](/\ Len(messages) = Cardinality(Appended)
          /\ \A r \in Appended :
                /\ req[r].msg \in DOMAIN messages
                /\ \A r2 \in Appended : r2 # r => req[r2].msg # req[r].msg
          /\ \A r \in DOMAIN req :
                req[r].result = "ok" /\ req[r].op \in SendOps => r \in Appended)
    /\ [][/\ \A m \in DOMAIN messages : m \in DOMAIN messages' /\ messages'[m] = messages[m]
          /\ \A r \in DOMAIN req :
                /\ r \in Appended => req'[r].msg = req[r].msg /\ req'[r].pc # "append"
                /\ /\ req[r].pc \in {"last", "inc", "emit"}
                   /\ req'[r].pc = "done"
                   /\ delivered' = delivered
                   => req'[r].result = "Server error" /\ messages' = messages]_vars

\* two sends that both failed after their append: two messages remain
C22_Witness ==
    /\ Len(messages) = 2
    /\ \E r1, r2 \in Appended :
        /\ r1 # r2
        /\ req[r1].result = "Server error"
        /\ req[r2].result = "Server error"
        /\ \A s \in Sockets : delivered[s] = EmptyBag

\* a send received over a socket that has since disconnected
SenderGone(q) == q.op = "socket_send" /\ InPipeline(q) /\ sockets[q.sock].state = "closed"

\* C23: once a socket's send has been accepted, the disconnection of that
\* socket stops nothing: every remaining step of the send can run and has its
\* effect: the message is appended, lastMessage and the receiver's counter
\* are updated, the receiver's connected sessions get message:new and
\* thread:update, the answer is the success answer, and no stored message is
\* removed.
C23_DisconnectedSenderPipelineCompletes ==
    /\ [](\A r \in DOMAIN req : SenderGone(req[r]) => ENABLED SendStep(r))
    /\ [][\A r \in DOMAIN req :
            (SenderGone(req[r]) /\ req'[r] # req[r]) =>
                LET q == req[r]
                    new == Event("message:new", q.msg, q.conv, NoId, NoId)
                    upd == Event("thread:update", NoId, q.conv, q.me, NoId)
                IN /\ req'[r].result # "Server error"
                   /\ \A m \in DOMAIN messages :
                         m \in DOMAIN messages' /\ messages'[m] = messages[m]
                   /\ q.pc = "append" =>
                          /\ Len(messages') = Len(messages) + 1
                          /\ req'[r].msg = Len(messages')
                          /\ messages'[req'[r].msg].from = q.me
                          /\ messages'[req'[r].msg].to = q.peer
                   /\ q.pc = "last" =>
                          /\ conversations'[q.conv].lastMessage.from = q.me
                          /\ conversations'[q.conv].lastMessage.timestamp
                                = messages[q.msg].createdAt
                   /\ q.pc = "inc" =>
                          UnreadOf(conversations'[q.conv], q.peer)
                              = UnreadOf(conversations[q.conv], q.peer) + 1
                   /\ q.pc = "emit" =>
                          /\ req'[r].pc = "done" /\ req'[r].result = "ok"
                          /\ \A s \in Room(q.peer) :
                                /\ CopiesIn(new, delivered'[s]) = CopiesIn(new, delivered[s]) + 1
                                /\ CopiesIn(upd, delivered'[s]) = CopiesIn(upd, delivered[s]) + 1]_vars

\* a socket send that ended with the success answer although its socket had
\* closed before the emit: the message is stored, a session of the receiver
\* holds message:new, the closed socket does not
C23_Witness ==
    \E r \in DOMAIN req :
        /\ req[r].op = "socket_send" /\ req[r].pc = "done" /\ req[r].result = "ok"
        /\ sockets[req[r].sock].state = "closed"
        /\ messages[req[r].msg].from = req[r].me
        /\ NewEventsOf(req[r].sock, req[r].msg) = {}
        /\ \E s \in Room(req[r].peer) : NewEventsOf(s, req[r].msg) # {}

\* only connections so far: no socket has disconnected
OnlyConnects == \A s \in Sockets : sockets[s].state # "closed"
\* socket s connects in this step
Connects(s) == sockets[s].state = "new" /\ sockets'[s].state = "connected"

\* C24: the registry is keyed by user id, so it holds one entry per user at
\* most; a connection stores the connecting session as its user's entry,
\* leaves every other entry and every other socket (the user's older
\* sessions included) as they were; and as long as nothing has disconnected
\* the entries are exactly those of the users with a connected session,
\* each naming a connected session of its user.
C24_RegistryNamesNewestSession ==
    /\ [](OnlyConnects =>
            /\ DOMAIN connectedUsers = {sockets[s].userId : s \in {t \in Sockets : sockets[t].state = "connected"}}
            /\ \A u \in DOMAIN connectedUsers : connectedUsers[u].socketId \in Room(u))
    /\ [][/\ \A s \in Sockets :
              Connects(s) =>
                  LET u == sockets'[s].userId
                  IN /\ DOMAIN connectedUsers' = DOMAIN connectedUsers \cup {u}
                     /\ connectedUsers'[u].socketId = s
                     /\ \A v \in DOMAIN connectedUsers \ {u} :
                            connectedUsers'[v] = connectedUsers[v]
                     /\ \A t \in Sockets \ {s} : sockets'[t] = sockets[t]
          /\ sockets' = sockets => connectedUsers' = connectedUsers]_vars

\* user 1 connected on socket 2 and then on socket 1: the entry names socket
\* 1 and socket 2 is still connected
C24_Witness ==
    /\ OnlyConnects
    /\ sockets[1].state = "connected" /\ sockets[2].state = "connected"
    /\ sockets[1].userId = 1 /\ sockets[2].userId = 1
    /\ connectedUsers[1].socketId = 1

\* the sockets that receive an event in this step
Receivers == {t \in Sockets : delivered'[t] # delivered[t]}

\* C25: a typing event touches no stored state and reaches only connected
\* sessions of one user, the named peer, each of which gets the one event
\* carrying the sender's id; no session of the sender itself receives it.
C25_TypingReachesOnlyThePeer ==
    [][Receivers # {} =>
          /\ UNCHANGED <<conversations, messages, connectedUsers, sockets, req, issued>>
          /\ \E kind \in TypingKinds, from \in Users, to \in Users :
                /\ Receivers = Room(to)
                /\ \A t \in Receivers :
                      delivered'[t] = delivered[t] (+) SetToBag({TypingEvent(kind, from)})
                /\ \A t \in Receivers : sockets[t].userId # from]_vars

\* C26: no stored message has its sender as its receiver.
C26_SenderIsNotReceiver ==
    \A m \in DOMAIN messages : messages[m].from # messages[m].to

\* a send over a socket, stored with two distinct users
C26_Witness ==
    \E r \in DOMAIN req :
        /\ req[r].op = "socket_send" /\ req[r].result = "ok"
        /\ req[r].msg \in DOMAIN messages
        /\ messages[req[r].msg].from = req[r].me
        /\ messages[req[r].msg].to = req[r].peer
        /\ req[r].me # req[r].peer

\* C27: every stored message has a text of at least one character or a
\* file attachment, whatever text its send supplied.
C27_MessageHasBody ==
    \A m \in DOMAIN messages :
        Length(messages[m].text) > 0 \/ messages[m].fileAttachment

\* request r runs its query in this step
Lists(r) == req[r].op = "get_messages" /\ req[r].pc = "list" /\ req'[r].pc # "list"

\* C28: whatever `limit` a getMessages asks for, the query runs with a page
\* size between 1 and 100: it returns at least one message when the
\* conversation has an eligible one, and never more than 100.
C28_PageSizeWithinBounds ==
    [][\A r \in DOMAIN req :
          Lists(r) =>
              /\ req'[r].pc = "reset"
              /\ req'[r].size \in 1..MaxLimit
              /\ Len(req'[r].list) <= MaxLimit
              /\ QueryMessages(req[r].conv, req'[r].before) # {} => Len(req'[r].list) >= 1]_vars

\* the messages of conversation c a page with cursor `before` may hold
Eligible(c, before) ==
    {m \in DOMAIN messages :
        /\ messages[m].conversationId = c
        /\ before # NoDate => messages[m].createdAt < before}

\* C29: the page a getMessages query returns holds messages of the
\* conversation created strictly before the cursor (when one is given), each
\* once; it holds as many of them as the page size allows; none left out is
\* newer than one returned; and the page is ordered oldest first.  The page
\* size is the limit asked for when that lies in 1..100.
C29_PageIsNewestOldestFirst ==
    [][\A r \in DOMAIN req :
          (Lists(r) /\ req'[r].pc = "reset") =>
              LET q == req'[r]
                  page == q.list
                  all == Eligible(q.conv, q.before)
              IN /\ q.limit \in 1..MaxLimit => q.size = q.limit
                 /\ Range(page) \subseteq all
                 /\ Cardinality(Range(page)) = Len(page)
                 /\ Len(page) = Min(q.size, Cardinality(all))
                 /\ \A m \in Range(page), o \in all \ Range(page) :
                        messages[m].createdAt >= messages[o].createdAt
                 /\ \A i, j \in DOMAIN page :
                        i < j => messages[page[i]].createdAt <= messages[page[j]].createdAt]_vars

\* a page asked with limit 1 and a cursor, on a conversation with two
\* messages of different times: the page holds the older message only
C29_Witness ==
    \E r \in DOMAIN req :
        /\ req[r].op = "get_messages" /\ req[r].pc = "done" /\ req[r].result = "ok"
        /\ req[r].limit = 1 /\ req[r].before # NoDate
        /\ Len(req[r].list) = 1
        /\ \E m \in DOMAIN messages :
              /\ messages[m].conversationId = req[r].conv
              /\ messages[m].createdAt > messages[req[r].list[1]].createdAt

\* request r is a getThreads answered in this step
ListsThreads(r) == req[r].pc = "idle" /\ req'[r].op = "get_threads"

\* C30: getThreads of user U answers with exactly the conversations U takes
\* part in, each once, latest lastMessage timestamp first, each with U's own
\* unread count.
C30_ThreadsAreOwnConversations ==
    [][\A r \in DOMAIN req :
          ListsThreads(r) =>
              LET me == req'[r].me
                  ts == req'[r].threads
              IN /\ req'[r].result = "ok"
                 /\ {ts[i].conversationId : i \in DOMAIN ts} = ConversationsOf(me)
                 /\ Len(ts) = Cardinality(ConversationsOf(me))
                 /\ \A i, j \in DOMAIN ts : i < j => ts[i].lastAt >= ts[j].lastAt
                 /\ \A i \in DOMAIN ts :
                        /\ ts[i].lastAt = conversations[ts[i].conversationId].lastMessage.timestamp
                        /\ ts[i].unreadCount
                              = UnreadOf(conversations[ts[i].conversationId], me)]_vars

\* the preview the claim names for a message of each type
PreviewOf(mtype, text) ==
    CASE mtype = "text" -> [kind |-> "text", core |-> text.core]
      [] mtype = "image" -> [kind |-> "photo", core |-> 0]
      [] mtype = "file" -> [kind |-> "file", core |-> 0]
      [] mtype = "multi_image" -> [kind |-> "photos", core |-> 0]

\* C31: a valid send of each message type (text, image, file, multi-image)
\* succeeds, and its lastMessage update stores the preview of that type.
C31_EveryTypeSendsWithPreview ==
    [][\A r \in DOMAIN req :
          (req[r].op \in SendOps /\ req'[r] # req[r] /\ req[r].pc # "idle") =>
              /\ req'[r].result # "Server error"
              /\ req[r].pc = "last" =>
                    conversations'[req[r].conv].lastMessage.text
                        = PreviewOf(req[r].mtype, req[r].text)]_vars

\* the conversations / messages this step removes
RemovedConversations == {c \in ConversationIds : conversations'[c] = DeletedConversation}
RemovedMessages == {m \in MessageIds : messages'[m] = DeletedMessage}
\* every participant of the conversation has a user document
AllParticipantsExist(c) == \A p \in Range(c.participants) : UserExists(p)
\* some cleanup request takes a step
CleanupActs == \E r \in DOMAIN req : req[r].op = "cleanup" /\ req'[r] # req[r]

\* C32: only the cleanup removes a conversation or a message; what it
\* removes is a conversation with a participant who has no user document,
\* and the messages of such a conversation, all of them in one step; a
\* conversation whose participants all exist, and its messages, are left as
\* they were by every cleanup step.
C32_OnlyCleanupRemovesOrphans ==
    [][/\ (RemovedConversations # {} \/ RemovedMessages # {}) => CleanupActs
       /\ \A c \in RemovedConversations : ~AllParticipantsExist(conversations[c])
       /\ \A m \in RemovedMessages :
             /\ NoConversation(messages[m].conversationId)
             /\ \A o \in MessageIds :
                   messages[o].conversationId = messages[m].conversationId
                       => o \in RemovedMessages
       /\ CleanupActs =>
             /\ \A c \in ConversationIds :
                   AllParticipantsExist(conversations[c]) => conversations'[c] = conversations[c]
             /\ \A m \in MessageIds :
                   /\ ~NoConversation(messages[m].conversationId)
                   /\ AllParticipantsExist(conversations[messages[m].conversationId])
                   => messages'[m] = messages[m]]_vars

\* a finished cleanup: the conversation with the deleted user and its message
\* are gone, the conversation of users 1 and 2 and its message are stored
C32_Witness ==
    /\ \E r \in DOMAIN req : req[r].op = "cleanup" /\ req[r].pc = "done"
    /\ ConversationIds = {1}
    /\ 2 \notin MessageIds
    /\ 1 \in MessageIds /\ messages[1].conversationId = 1

\* the lastMessage snapshot of message m
SnapshotOf(m) == [text |-> LastMessageText(m), from |-> m.from, timestamp |-> m.createdAt]
\* request r emits in this step
Emits(r) == req[r].op \in SendOps /\ req'[r] # req[r] /\ delivered' # delivered
\* the events socket s receives in this step
ReceivedBy(s) == {e \in BagToSet(delivered'[s]) : CopiesIn(e, delivered'[s]) > CopiesIn(e, delivered[s])}

\* C33: a send runs get-or-create, append, lastMessage update, unread
\* increment and emit in that order.  When a send emits, every event it
\* emits is message:new for its message M or thread:update for M's
\* conversation, M is stored, the send has been through its lastMessage
\* update and its increment, the conversation's lastMessage is the snapshot
\* of a stored message of the conversation, and the receiver's unread count
\* is at least one.
C33_EmitComesLast ==
    [][\A r \in DOMAIN req :
          /\ (req[r].op \in SendOps /\ req'[r].pc # req[r].pc /\ req'[r].result # "Server error") =>
                <<req[r].pc, req'[r].pc>> \in
                    {<<"idle", "find">>, <<"idle", "done">>, <<"find", "create">>,
                     <<"find", "append">>, <<"create", "append">>, <<"append", "last">>,
                     <<"last", "inc">>, <<"inc", "emit">>, <<"emit", "done">>}
          /\ Emits(r) =>
                LET q == req[r]
                IN /\ q.pc = "emit"
                   /\ q.msg \in MessageIds
                   /\ messages[q.msg].conversationId = q.conv
                   /\ \A s \in Sockets : \A e \in ReceivedBy(s) :
                         \/ e.ev = "message:new" /\ e.messageId = q.msg
                         \/ e.ev = "thread:update" /\ e.conversationId = q.conv
                   /\ \E m \in MessageIds :
                         /\ messages[m].conversationId = q.conv
                         /\ conversations[q.conv].lastMessage = SnapshotOf(messages[m])
                   /\ UnreadOf(conversations[q.conv], q.peer) >= 1]_vars

\* two sends that ran concurrently have both emitted: the receiver's
\* sessions hold message:new for both
C33_Witness ==
    \E r1, r2 \in DOMAIN req :
        /\ r1 # r2
        /\ req[r1].result = "ok" /\ req[r2].result = "ok"
        /\ req[r1].op = "http_send" /\ req[r2].op = "socket_send"
        /\ \E s \in Room(req[r1].peer) : NewEventsOf(s, req[r1].msg) # {}
        /\ \E s \in Room(req[r2].peer) : NewEventsOf(s, req[r2].msg) # {}

\* the request that takes this step
Acts(r) == req'[r] # req[r]
\* this step adds a conversation to the store
AddsConversation == Len(conversations') > Len(conversations)

\* C34 as stated: a conversation is added only by a step of a send or of a
\* start-conversation request.
C34_OnlySendOrStartCreates ==
    [][AddsConversation =>
          \E r \in DOMAIN req : Acts(r) /\ req[r].op \in SendOps \cup {"start_conv"}]_vars

\* C34, amended: a conversation is added only by a step of a send, of a
\* start-conversation or of a getMessages by peer id or peer email; the step
\* adds one conversation, for the requester and the peer in ascending order,
\* and leaves the conversations there were as they were.  A getMessages by
\* conversation id, getThreads, conversation details, user lookup,
\* message:read, typing, connect and disconnect add none.
C34_OnlyGetOrCreateCreates ==
    [][AddsConversation =>
          /\ Len(conversations') = Len(conversations) + 1
          /\ SubSeq(conversations', 1, Len(conversations)) = conversations
          /\ \E r \in DOMAIN req :
                /\ Acts(r)
                /\ req[r].op \in SendOps \cup {"start_conv", "get_messages"}
                /\ req[r].cid = NoId
                /\ LET p == conversations'[Len(conversations')].participants
                   IN /\ Range(p) = {req[r].me, req[r].peer}
                      /\ Len(p) = 2
                      /\ p[1] <= p[2]]_vars

\* a getMessages by peer email has created the only conversation there is,
\* and every other kind of request has been answered since
C34_Witness ==
    /\ Len(conversations) = 1
    /\ Len(messages) = 0
    /\ req[1].op = "get_messages" /\ req[1].cid = NoId /\ req[1].result = "ok"
    /\ req[2].op = "get_user" /\ req[2].result = "ok" /\ req[2].conv = 1

\* request g is a completed getMessages of user u, the only one u has made
OnlyFetchOf(g, u) ==
    /\ req[g].op = "get_messages" /\ req[g].me = u
    /\ req[g].pc = "done" /\ req[g].result = "ok"
    /\ \A r \in Slots \ {g} : req[r].op # "get_messages"
\* request r is a completed send to user u in conversation c
SentTo(r, c, u) ==
    /\ req[r].op \in SendOps /\ req[r].peer = u /\ req[r].conv = c
    /\ req[r].pc = "done" /\ req[r].result = "ok"

\* C35: a getMessages reset never erases the count of an unseen message.
\* Once every request has completed, if user 2 has made one getMessages on a
\* conversation and a message sent to user 2 in that conversation is not in
\* the list it returned (the message was appended after the query of the
\* getMessages), user 2's unread count for the conversation is at least 1.
C35_ResetKeepsUnseenCount ==
    (\A r \in Slots : req[r].pc = "done") =>
        \A g, r \in Slots :
            (/\ OnlyFetchOf(g, 2)
             /\ SentTo(r, req[g].conv, 2)
             /\ req[r].msg \notin Range(req[g].list))
                => UnreadOf(conversations[req[g].conv], 2) >= 1

\* the messages of conversation c
MessagesOf(c) == {m \in MessageIds : messages[m].conversationId = c}
\* message m was created after every other message of its conversation
Newest(m) ==
    \A k \in MessagesOf(messages[m].conversationId) \ {m} :
        messages[k].createdAt < messages[m].createdAt

\* C36: once every send has completed, the lastMessage snapshot of a
\* conversation (preview text, sender, timestamp) is that of the message of
\* the conversation with the greatest creation time, whatever the
\* interleaving of the sends.
C36_LastMessageIsNewest ==
    (\A r \in Slots : req[r].pc \in {"idle", "done"}) =>
        \A m \in MessageIds :
            Newest(m) =>
                conversations[messages[m].conversationId].lastMessage = SnapshotOf(messages[m])

\* C37: in every reachable state every stored message belongs to a stored
\* conversation, and its sender and receiver are exactly the two participants
\* of that conversation.
C37_MessagesBelongToConversations ==
    \A m \in MessageIds :
        LET c == messages[m].conversationId
        IN /\ c \in ConversationIds
           /\ Len(conversations[c].participants) = 2
           /\ Range(conversations[c].participants) = {messages[m].from, messages[m].to}

\* C38: the presence registry reports a user online exactly when at least
\* one socket of that user is connected.
C38_OnlineIffConnected ==
    \A u \in Users : IsOnline(u) <=> (\E s \in Sockets : sockets[s].state = "connected" /\ sockets[s].userId = u)

\* the sessions that receive an event in this step
Reached == {s \in Sockets : ReceivedBy(s) # {}}
\* the sessions the HTTP handler would emit to for the send of request q
HttpReach(q) == SenderTargets([q EXCEPT !.op = "http_send"]) \cup ReceiverTargets(q)

\* C39: the HTTP and the socket send path deliver message:new and
\* thread:update to the same sessions of the sender and of the receiver:
\* whichever path a send took, the sessions its emit step reaches are those
\* the HTTP path reaches for that sender and receiver, also when the sender
\* has more than one session.
C39_BothPathsReachSameSessions ==
    [][\A r \in Slots : Emits(r) => Reached = HttpReach(req[r])]_vars

\* C40: at most one connect() retry loop is active at any time; a connect()
\* made while a loop is active returns without creating a socket, also after
\* a connect-error, error or disconnect event; and each connect() makes at
\* most _maxConnectionAttempts attempts.
C40_OneConnectLoop ==
    /\ Cardinality(ActiveCalls) <= 1
    /\ \A k \in DOMAIN client.calls :
          /\ client.calls[k].overlapped =>
                client.calls[k].pc = "returned" /\ client.calls[k].created = 0
          /\ client.calls[k].made <= maxConnectionAttempts

============================================================================
